---- MODULE Spec2Model ----
(***************************************************************************)
(* Wallet authentication of the Cardano blockchain viewer backend          *)
(* (src/cardano_blockchain_viewer/src/api/auth.rs): the challenge store,   *)
(* the handlers create_challenge and verify_signature, the COSE envelope   *)
(* extraction, the five-method signature check and the address check.      *)
(*                                                                         *)
(* Byte strings, keys and signatures are abstract values.  A signature     *)
(* records who made it and over which bytes; Ed25519 verification holds    *)
(* exactly for that key and those bytes.                                   *)
(***************************************************************************)
EXTENDS Integers, Sequences, FiniteSets, TLC

\* ------------------------------------------------------------------------
\* Bounds of the model
\* ------------------------------------------------------------------------
\* challenges generated in a run
MaxCreates == 2
\* clock steps of each length (one second, one time to live) in a run
MaxTicks == 1
\* distinct values rand::random() returns in a run
MaxNonce == 2
\* how many times add_event is called
MaxAdds == 102
\* how many events the source delivers when process_event runs alone
MaxEvents == 501
\* how many events the source delivers while a WebSocket client comes and goes
MaxWsEvents == 6
\* how many messages a client's socket takes while the client does not read
SocketBuffer == 1

\* ------------------------------------------------------------------------
\* Program constants
\* ------------------------------------------------------------------------
\* auth.rs:103 and auth.rs:159, the challenge time to live in seconds
TTL == 300
\* auth.rs:78, the length of the address prefix that is logged
LOG_PREFIX == 16
\* auth.rs:248, the length of the token subject prefix that is logged
LOG_SUBJECT == 20
\* auth.rs:207, the length of the address prefix in the debug lines
LOG_DEBUG == 32
\* auth.rs:354, the length of the payload prefix that is logged
LOG_PAYLOAD == 50
\* chrono::Duration::hours(24) in seconds, jwt.rs:32
TOKEN_LIFETIME == 86400
\* the leeway of jsonwebtoken's Validation::default(), in seconds, jwt.rs:60
LEEWAY == 60
\* config.rs:4, 7, 10
BUFFER_SIZE == 100
MAX_BLOCK_COUNT == 100
MAX_TX_COUNT == 500
\* event_processor.rs:50, the stats message every fifth event
STATS_PERIOD == 5
\* main.rs:54, broadcast::channel(1000)
CHANNEL_CAPACITY == 1000

\* ------------------------------------------------------------------------
\* Addresses.  An address is a string of the request; the model keeps for
\* each one its length in bytes, whether byte 16 is a character boundary,
\* and what cardano_serialization_lib decodes it to.
\* ------------------------------------------------------------------------
EmptyAddr == ""
ShortAddr == "addr1short"
SplitAddr == "addr1_15_bytes_then_2_byte_char"
Split20Addr == "addr1_19_bytes_then_2_byte_char"
Split32Addr == "addr1_31_bytes_then_2_byte_char"
AddrK1 == "addr_test1_enterprise_key_K1"
AddrK2Base == "addr_test1_base_key_K2"
AddrPtrK1 == "addr_test1_pointer_key_K1"
AddrScript == "addr_test1_enterprise_script"
AddrReward == "stake_test1_reward_key_K1"
AddrBad == "not_a_cardano_address"
AddrHexK1 == "60_hex_of_enterprise_key_K1"

Addresses ==
    {EmptyAddr, ShortAddr, SplitAddr, Split20Addr, Split32Addr, AddrK1,
     AddrK2Base, AddrPtrK1, AddrScript, AddrReward, AddrBad, AddrHexK1}

\* str::len() of the address, in bytes
AddrLen(a) ==
    CASE a = EmptyAddr -> 0
      [] a = ShortAddr -> 10
      [] a = SplitAddr -> 17
      [] a = Split20Addr -> 21
      [] a = Split32Addr -> 33
      [] OTHER -> 32

\* str::is_char_boundary(n) for n <= len
IsCharBoundary(a, n) ==
    /\ ~(a = SplitAddr /\ n = LOG_PREFIX)
    /\ ~(a = Split20Addr /\ n = LOG_SUBJECT)
    /\ ~(a = Split32Addr /\ n = LOG_DEBUG)

\* &a[..n]: TRUE when the slice exists, FALSE when the indexing panics
SliceOk(a, n) == n <= AddrLen(a) /\ IsCharBoundary(a, n)

Min(x, y) == IF x <= y THEN x ELSE y

\* Address::from_bytes / Address::from_bech32 and the typed views
\* BaseAddress / EnterpriseAddress / PointerAddress ::from_address
AddrDecode(a) ==
    CASE a = AddrK1     -> [shape |-> "enterprise", cred |-> "key", hash |-> "h_K1"]
      [] a = AddrHexK1  -> [shape |-> "enterprise", cred |-> "key", hash |-> "h_K1"]
      [] a = AddrK2Base -> [shape |-> "base", cred |-> "key", hash |-> "h_K2"]
      [] a = AddrPtrK1  -> [shape |-> "pointer", cred |-> "key", hash |-> "h_K1"]
      [] a = AddrScript -> [shape |-> "enterprise", cred |-> "script", hash |-> "h_script"]
      [] a = AddrReward -> [shape |-> "reward", cred |-> "key", hash |-> "h_K1"]
      [] OTHER          -> [shape |-> "undecodable", cred |-> "none", hash |-> "none"]

\* ------------------------------------------------------------------------
\* Keys.  K1 and K2 are Ed25519 public keys; KX is 32 bytes that are not
\* a curve point.
\* ------------------------------------------------------------------------
Keys == {"K1", "K2"}
RawKeys == Keys \cup {"KX"}
NoKey == "none"

\* PublicKey::hash (Blake2b-224), auth.rs:654
KeyHash(k) ==
    CASE k = "K1" -> "h_K1"
      [] k = "K2" -> "h_K2"
      [] OTHER -> "h_KX"

\* VerifyingKey::from_bytes, auth.rs:396
IsCurvePoint(k) == k \in Keys

\* ------------------------------------------------------------------------
\* Byte strings.  A message is the text "...Nonce: n\nTimestamp: t"; a body
\* is a byte string a client may put in a payload or sign directly.
\* ------------------------------------------------------------------------
Nonces == 1..MaxNonce

EmptyBytes == [pform |-> "empty", nonce |-> 0, time |-> 0]
\* bytes that are not UTF-8 text
OtherBytes == [pform |-> "other", nonce |-> 0, time |-> 0]
\* 51 bytes of UTF-8 text whose bytes 49..50 are one 2-byte character
SplitBytes == [pform |-> "split", nonce |-> 0, time |-> 0]
\* message.as_bytes(), auth.rs:340
MsgBytes(m) == [pform |-> "msg", nonce |-> m.nonce, time |-> m.time]
\* hex::encode(message.as_bytes()).as_bytes(), auth.rs:327 and auth.rs:344
HexText(b) == [pform |-> "hexmsg", nonce |-> b.nonce, time |-> b.time]
\* String::from_utf8 followed by hex::decode, auth.rs:467-468: the bytes a
\* hex text stands for, or "none" when the body is not a hex text
HexDecode(b) ==
    IF b.pform = "hexmsg"
    THEN [ok |-> TRUE, bytes |-> [pform |-> "msg", nonce |-> b.nonce, time |-> b.time]]
    ELSE [ok |-> FALSE, bytes |-> EmptyBytes]

\* The bytes handed to the Ed25519 primitive: a body as it is, or the CBOR
\* encoding of ["Signature1", protected, h'', payload] (auth.rs:423-433)
Plain(b) == [wrap |-> "none", ph |-> "", body |-> b]
SigStructure(ph, payload) == [wrap |-> "Signature1", ph |-> ph, body |-> payload]

\* A signature made by `signer` over `over`; nobody made a corrupted one
Sign(k, d) == [signer |-> k, over |-> d]
CorruptSig == [signer |-> "nobody", over |-> Plain(EmptyBytes)]

\* verifying_key.verify(data, &signature).is_ok()
Ed25519Verify(k, d, s) == s.signer = k /\ s.over = d

\* ------------------------------------------------------------------------
\* Envelopes.  The bytes of an envelope are kept as their length class and
\* the value ciborium decodes them to.
\* ------------------------------------------------------------------------
\* the content of a CBOR byte string: a text (a protected header, a key), a
\* body or a signature
NoBlob == [s |-> "", b |-> EmptyBytes, g |-> CorruptSig]
TextBlob(x) == [NoBlob EXCEPT !.s = x]
BodyBlob(x) == [NoBlob EXCEPT !.b = x]
SigBlob(x) == [NoBlob EXCEPT !.g = x]

\* the items of ciborium::Value the extraction tells apart
BytesEl(n, v) == [t |-> "bytes", len |-> n, int |-> 0, v |-> v]
NullEl == [t |-> "null", len |-> 0, int |-> 0, v |-> NoBlob]
MapEl == [t |-> "map", len |-> 0, int |-> 0, v |-> NoBlob]
TextEl == [t |-> "text", len |-> 0, int |-> 0, v |-> NoBlob]
IntEl(i) == [t |-> "int", len |-> 0, int |-> i, v |-> NoBlob]

CborFail == [type |-> "fail", items |-> <<>>]
CborArray(items) == [type |-> "array", items |-> items]
CborMap(entries) == [type |-> "map", items |-> entries]
CborScalar == [type |-> "scalar", items |-> <<>>]

\* length in bytes of a protected header and of a body
PhLen(ph) == IF ph = "" THEN 0 ELSE 3
BodyLen(b) == CASE b.pform = "empty" -> 0
                [] b.pform = "hexmsg" -> 200
                [] b.pform = "split" -> 51
                [] OTHER -> 100

\* a signature envelope: 64 raw bytes, or a CBOR item of another length
Raw64(s) == [len64 |-> TRUE, raw |-> s, cbor |-> CborFail]
CborSig(c) == [len64 |-> FALSE, raw |-> CorruptSig, cbor |-> c]
\* 64 bytes that are also the encoding of the CBOR item c
Raw64Cbor(s, c) == [len64 |-> TRUE, raw |-> s, cbor |-> c]
Sign1(ph, payload, s) ==
    CborSig(CborArray(<<BytesEl(PhLen(ph), TextBlob(ph)), MapEl,
                        BytesEl(BodyLen(payload), BodyBlob(payload)),
                        BytesEl(64, SigBlob(s))>>))
Sign1NullPayload(ph, s) ==
    CborSig(CborArray(<<BytesEl(PhLen(ph), TextBlob(ph)), MapEl, NullEl,
                        BytesEl(64, SigBlob(s))>>))

\* a key envelope: 32 raw bytes, or a CBOR item of another length
Raw32(k) == [len32 |-> TRUE, raw |-> k, cbor |-> CborFail]
CborKey(c) == [len32 |-> FALSE, raw |-> NoKey, cbor |-> c]
\* 32 bytes that are also the encoding of the CBOR item c
Raw32Cbor(k, c) == [len32 |-> TRUE, raw |-> k, cbor |-> c]
Entry(label, el) == [label |-> label, el |-> el]
\* COSE_Key {1: 1, 3: -8, -1: 6, -2: h'key'}
CoseKey(k) ==
    CborKey(CborMap(<<Entry(IntEl(1), IntEl(1)), Entry(IntEl(3), IntEl(-8)),
                      Entry(IntEl(-1), IntEl(6)), Entry(IntEl(-2), BytesEl(32, TextBlob(k)))>>))

\* a hex string of the request: "", text that is not hex, or the hex of bytes
HexOf(b) == [hex |-> "ok", bytes |-> b]

Ok(v) == [ok |-> TRUE, val |-> v]
Err(why) == [ok |-> FALSE, val |-> why]

\* an envelope of length 0: hex::decode("") is Ok(vec![]), not CBOR
NoBytesSig == CborSig(CborFail)
NoBytesKey == CborKey(CborFail)
EmptySigStr == [hex |-> "empty", bytes |-> NoBytesSig]
BadHexSig == [hex |-> "bad", bytes |-> NoBytesSig]
EmptyKeyStr == [hex |-> "empty", bytes |-> NoBytesKey]
BadHexKey == [hex |-> "bad", bytes |-> NoBytesKey]

\* hex::decode of a request string, auth.rs:300-306
hex_decode(str) ==
    IF str.hex \in {"ok", "empty"} THEN [ok |-> TRUE, bytes |-> str.bytes]
    ELSE [ok |-> FALSE, bytes |-> str.bytes]

\* a decoder that decodes CBOR first and takes the 64 bytes as they are
\* only when they are no CBOR item
extract_signature_CborFirst(b) ==
    IF b.cbor.type = "fail"
    THEN (IF b.len64 THEN Ok([sig |-> b.raw, payload |-> EmptyBytes, ph |-> ""])
          ELSE Err("Failed to parse COSE_Sign1 CBOR"))
    ELSE IF b.cbor.type # "array" THEN Err("COSE_Sign1 must be a CBOR array")
    ELSE IF Len(b.cbor.items) # 4 THEN Err("COSE_Sign1 must have 4 elements")
    ELSE LET arr == b.cbor.items IN
         IF arr[1].t # "bytes" THEN Err("COSE_Sign1 protected headers must be bytes")
         ELSE IF arr[3].t \notin {"bytes", "null"}
              THEN Err("COSE_Sign1 payload must be bytes or null")
         ELSE IF arr[4].t # "bytes" THEN Err("COSE_Sign1 signature must be bytes")
         ELSE IF arr[4].len # 64 THEN Err("Ed25519 signature must be 64 bytes")
         ELSE Ok([sig |-> arr[4].v.g,
                  payload |-> IF arr[3].t = "null" THEN EmptyBytes ELSE arr[3].v.b,
                  ph |-> arr[1].v.s])

\* a decoder that takes a byte-string payload only
extract_signature_BytesPayloadOnly(b) ==
    IF b.len64 THEN Ok([sig |-> b.raw, payload |-> EmptyBytes, ph |-> ""])
    ELSE IF b.cbor.type = "fail" THEN Err("Failed to parse COSE_Sign1 CBOR")
    ELSE IF b.cbor.type # "array" THEN Err("COSE_Sign1 must be a CBOR array")
    ELSE IF Len(b.cbor.items) # 4 THEN Err("COSE_Sign1 must have 4 elements")
    ELSE LET arr == b.cbor.items IN
         IF arr[1].t # "bytes" THEN Err("COSE_Sign1 protected headers must be bytes")
         ELSE IF arr[3].t # "bytes" THEN Err("COSE_Sign1 payload must be bytes")
         ELSE IF arr[4].t # "bytes" THEN Err("COSE_Sign1 signature must be bytes")
         ELSE IF arr[4].len # 64 THEN Err("Ed25519 signature must be 64 bytes")
         ELSE Ok([sig |-> arr[4].v.g, payload |-> arr[3].v.b, ph |-> arr[1].v.s])

\* extract_signature_from_cose_sign1, auth.rs:548-619
extract_signature_from_cose_sign1(b) ==
    IF b.len64 THEN Ok([sig |-> b.raw, payload |-> EmptyBytes, ph |-> ""])
    ELSE IF b.cbor.type = "fail" THEN Err("Failed to parse COSE_Sign1 CBOR")
    ELSE IF b.cbor.type # "array" THEN Err("COSE_Sign1 must be a CBOR array")
    ELSE IF Len(b.cbor.items) # 4 THEN Err("COSE_Sign1 must have 4 elements")
    ELSE LET arr == b.cbor.items IN
         IF arr[1].t # "bytes" THEN Err("COSE_Sign1 protected headers must be bytes")
         ELSE IF arr[3].t \notin {"bytes", "null"}
              THEN Err("COSE_Sign1 payload must be bytes or null")
         ELSE IF arr[4].t # "bytes" THEN Err("COSE_Sign1 signature must be bytes")
         ELSE IF arr[4].len # 64 THEN Err("Ed25519 signature must be 64 bytes")
         ELSE Ok([sig |-> arr[4].v.g,
                  payload |-> IF arr[3].t = "null" THEN EmptyBytes ELSE arr[3].v.b,
                  ph |-> arr[1].v.s])

\* the label -2 of a COSE_Key, auth.rs:527
IsLabelX(el) == el.t = "int" /\ el.int = -2

\* a decoder that takes the last entry -2 of the map
extract_public_key_LastEntry(b) ==
    IF b.len32 THEN Ok(b.raw)
    ELSE IF b.cbor.type = "fail" THEN Err("Failed to parse CBOR")
    ELSE IF b.cbor.type # "map" THEN Err("COSE_Key must be a CBOR map")
    ELSE LET es == b.cbor.items
             hits == {i \in 1..Len(es) : IsLabelX(es[i].label)}
         IN IF hits = {} THEN Err("Could not find public key (label -2)")
            ELSE LET i == CHOOSE j \in hits : \A h \in hits : j >= h
                     val == es[i].el
                 IN IF val.t # "bytes" THEN Err("Public key value must be bytes")
                    ELSE IF val.len # 32 THEN Err("Public key must be 32 bytes")
                    ELSE Ok(val.v.s)

\* extract_public_key_from_cose, auth.rs:495-545: the first entry -2 of the
\* map decides
extract_public_key_from_cose(b) ==
    IF b.len32 THEN Ok(b.raw)
    ELSE IF b.cbor.type = "fail" THEN Err("Failed to parse CBOR")
    ELSE IF b.cbor.type # "map" THEN Err("COSE_Key must be a CBOR map")
    ELSE LET es == b.cbor.items
             hits == {i \in 1..Len(es) : IsLabelX(es[i].label)}
         IN IF hits = {} THEN Err("Could not find public key (label -2)")
            ELSE LET i == CHOOSE j \in hits : \A h \in hits : j <= h
                     val == es[i].el
                 IN IF val.t # "bytes" THEN Err("Public key value must be bytes")
                    ELSE IF val.len # 32 THEN Err("Public key must be 32 bytes")
                    ELSE Ok(val.v.s)

\* verify_address_from_public_key, auth.rs:625-685: Ok(true) or an error,
\* never Ok(false)
\* an address check that returns the comparison of the hashes as its value
verify_address_ReturningMatches(address, key) ==
    LET d == AddrDecode(address) IN
    IF d.shape = "undecodable" THEN Err("Invalid address")
    ELSE IF d.shape \notin {"base", "enterprise", "pointer"}
         THEN Err("Unsupported address type (Byron, Reward, or Script)")
    ELSE IF d.cred # "key" THEN Err("Address uses script credential, not key credential")
    ELSE Ok(d.hash = KeyHash(key))

verify_address_from_public_key(address, key) ==
    LET d == AddrDecode(address) IN
    IF d.shape = "undecodable" THEN Err("Invalid address")
    ELSE IF d.shape \notin {"base", "enterprise", "pointer"}
         THEN Err("Unsupported address type (Byron, Reward, or Script)")
    ELSE IF d.cred # "key" THEN Err("Address uses script credential, not key credential")
    ELSE IF d.hash = KeyHash(key) THEN Ok(TRUE)
    ELSE Err("Public key does not match the address")

\* Methods 1 to 5 of verify_cardano_signature, auth.rs:414-478
\* (Method2Never: a verifier that lacks the check against the message bytes)
Method2Never(key, sig, message) == FALSE
Method1(key, sig, payload, ph) ==
    /\ (ph # "" \/ payload.pform # "empty")
    /\ Ed25519Verify(key, SigStructure(ph, payload), sig)
Method2(key, sig, message) == Ed25519Verify(key, Plain(MsgBytes(message)), sig)
\* (Method3AnyPayload: an attempt 3 that does not compare the payload with
\* the message)
Method3AnyPayload(key, sig, message, payload) ==
    /\ payload.pform # "empty"
    /\ Ed25519Verify(key, Plain(payload), sig)
Method3(key, sig, message, payload) ==
    /\ payload.pform # "empty"
    /\ payload = MsgBytes(message)
    /\ Ed25519Verify(key, Plain(payload), sig)
Method4(key, sig, message) ==
    Ed25519Verify(key, Plain(HexText(MsgBytes(message))), sig)
Method5(key, sig, message, payload) ==
    /\ payload.pform # "empty"
    /\ HexDecode(payload).ok
    /\ HexDecode(payload).bytes = MsgBytes(message)
    /\ Ed25519Verify(key, Plain(HexDecode(payload).bytes), sig)

\* String::from_utf8(payload).is_ok(), auth.rs:353
IsUtf8(b) == b.pform \in {"msg", "hexmsg", "split"}
\* the log lines of auth.rs:349-362: the payload, when it is text other
\* than the message, is sliced at byte 50 (or at its length); TRUE when that
\* indexing panics
PayloadLogPanics(payload, message) ==
    /\ payload.pform # "empty"
    /\ payload # MsgBytes(message)
    /\ IsUtf8(payload)
    /\ payload.pform = "split" /\ Min(BodyLen(payload), LOG_PAYLOAD) = LOG_PAYLOAD

\* What verify_cardano_signature does with the result of the address
\* check, auth.rs:376-392: both Ok(false) and Err are logged and the
\* verification goes on
AddressCheckStops(bind) == FALSE

\* verify_cardano_signature, auth.rs:289-492: "true", "false" or "err", or
\* "panic" when a log line indexes the payload inside a character
verify_cardano_signature(address, message, signature_hex, public_key_hex) ==
    LET sb == hex_decode(signature_hex)
        kb == hex_decode(public_key_hex)
    IN IF ~sb.ok \/ ~kb.ok THEN "err"
       ELSE LET env == extract_signature_from_cose_sign1(sb.bytes) IN
            IF ~env.ok THEN "err"
            ELSE IF PayloadLogPanics(env.val.payload, message) THEN "panic"
            ELSE LET rk == extract_public_key_from_cose(kb.bytes) IN
                 IF ~rk.ok THEN "err"
                 ELSE IF AddressCheckStops(verify_address_from_public_key(address, rk.val))
                      THEN "false"
                 ELSE IF ~IsCurvePoint(rk.val) THEN "err"
                 ELSE LET key == rk.val
                          sig == env.val.sig
                          payload == env.val.payload
                          ph == env.val.ph
                      IN IF \/ Method1(key, sig, payload, ph)
                            \/ Method2(key, sig, message)
                            \/ Method3(key, sig, message, payload)
                            \/ Method4(key, sig, message)
                            \/ Method5(key, sig, message, payload)
                         THEN "true" ELSE "false"

\* verify_cardano_signature without its attempts 3 and 5 (auth.rs:449-456
\* and 465-478)
verify_three_candidates(address, message, signature_hex, public_key_hex) ==
    LET sb == hex_decode(signature_hex)
        kb == hex_decode(public_key_hex)
    IN IF ~sb.ok \/ ~kb.ok THEN "err"
       ELSE LET env == extract_signature_from_cose_sign1(sb.bytes) IN
            IF ~env.ok THEN "err"
            ELSE IF PayloadLogPanics(env.val.payload, message) THEN "panic"
            ELSE LET rk == extract_public_key_from_cose(kb.bytes) IN
                 IF ~rk.ok THEN "err"
                 ELSE IF AddressCheckStops(verify_address_from_public_key(address, rk.val))
                      THEN "false"
                 ELSE IF ~IsCurvePoint(rk.val) THEN "err"
                 ELSE LET key == rk.val
                          sig == env.val.sig
                          payload == env.val.payload
                          ph == env.val.ph
                      IN IF \/ Method1(key, sig, payload, ph)
                            \/ Method2(key, sig, message)
                            \/ Method4(key, sig, message)
                         THEN "true" ELSE "false"

\* ------------------------------------------------------------------------
\* State
\* ------------------------------------------------------------------------
VARIABLES
    now,         \* chrono::Utc::now().timestamp(), in seconds
    challenges,  \* AuthState.challenges: HashMap<String, ChallengeData>
    reqs,        \* the request each handler task is serving, and how far it is
    known,       \* the challenge messages returned to clients so far
    nCreates,    \* how many challenges were generated so far
    consumed,    \* addresses verified with success and not challenged since
    base,        \* the challenge store as it was when the requests in flight began
    call,        \* a function of the verifier applied on its own: inputs and result
    challenges_lock, \* the task inside state.challenges.lock(), or "free"
    stream,      \* which run of events the source delivers
    state,       \* the AppState behind Arc<Mutex<AppState>>
    state_lock,  \* the task inside the AppState lock, or "free"
    proc,        \* the task of main.rs:94-103 that runs process_event
    ws_tx,       \* the broadcast channel of WebSocket messages
    clients,     \* the handle_socket task of each WebSocket client
    hist         \* what was added to the buffer and sent, for the properties

\* the variables of the authentication handlers
avars == <<now, challenges, reqs, known, nCreates, consumed, base, call,
           challenges_lock>>
\* the variables of the event pipeline
pvars == <<stream, state, state_lock, proc, ws_tx, clients, hist>>
\* what the handlers of api/auth.rs, run all at once, leave alone
evars == <<challenges_lock, pvars>>

vars == <<now, challenges, reqs, known, nCreates, consumed, base, call, evars>>

\* the handler tasks: one at a time, or two side by side
SeqTasks == {"t1"}
ConcTasks == {"t1", "t2"}

NoMsg == [nonce |-> 0, time |-> 0]
\* the format! of auth.rs:86-90
Message(nonce, time) == [nonce |-> nonce, time |-> time]

\* ChallengeData, auth.rs:18-23; id tells two challenges apart in the model
ChallengeData(nonce, message, timestamp, id) ==
    [nonce |-> nonce, message |-> message, timestamp |-> timestamp, id |-> id]
NoChallenge == ChallengeData(0, NoMsg, 0, 0)

NoToken == [sub |-> "none"]

\* Option<String>
None == [some |-> FALSE, val |-> ""]
Some(x) == [some |-> TRUE, val |-> x]

\* Claims, jwt.rs:5-11
Claims(w, st, exp, iat) ==
    [wallet_address |-> w, stake_address |-> st, exp |-> exp, iat |-> iat]
NoClaims == Claims("", None, 0, 0)

\* no function applied yet
NoCall ==
    [fn |-> "none", addr |-> EmptyAddr, msg |-> NoMsg, sig |-> EmptySigStr,
     key |-> EmptyKeyStr, raw |-> NoKey, s |-> CorruptSig, ph |-> "",
     body |-> EmptyBytes, out |-> "none", outSign1 |-> "none", outNull |-> "none",
     outThree |-> "none",
     stake |-> None, issued |-> 0, checked |-> 0, signer |-> "", checker |-> "",
     claims |-> NoClaims, header |-> "", route |-> "", handler |-> "none"]

IdleReq ==
    [op |-> "idle", pc |-> "idle", addr |-> EmptyAddr, sig |-> EmptySigStr,
     key |-> EmptyKeyStr, nonce |-> 0, ts |-> 0, msg |-> NoMsg, id |-> 0,
     chal |-> NoChallenge, at |-> 0, result |-> "none", token |-> NoToken]

\* normalize_address_format, auth.rs:272-283: both branches return the input
normalize_address_format(a) == a

\* HashMap::insert, auth.rs:94-101
\* (InsertIfAbsent: a store that keeps the entry an address already has)
InsertIfAbsent(c, a, d) == [x \in DOMAIN c \cup {a} |-> IF x \in DOMAIN c THEN c[x] ELSE d]
Insert(c, a, d) == [x \in DOMAIN c \cup {a} |-> IF x = a THEN d ELSE c[x]]
\* HashMap::retain, auth.rs:103-104
\* (RetainAll: a store that evicts nothing)
RetainAll(c, cutoff) == c
Retain(c, cutoff) == [x \in {y \in DOMAIN c : c[y].timestamp > cutoff} |-> c[x]]
\* HashMap::remove, auth.rs:234-235
\* (RemoveNothing: a store whose remove has no effect)
RemoveNothing(c, a) == c
Remove(c, a) == [x \in DOMAIN c \ {a} |-> c[x]]
\* the lookup of auth.rs:138-140
Lookup(c, a, original) ==
    IF a \in DOMAIN c THEN Ok(c[a])
    ELSE IF original \in DOMAIN c THEN Ok(c[original])
    ELSE Err("No challenge found")
\* the expiry test of auth.rs:159
\* (ExpiredAtTtl: the test with >= in place of >)
ExpiredAtTtl(t, timestamp) == t - timestamp >= TTL
Expired(t, timestamp) == t - timestamp > TTL

\* convert_to_bech32, auth.rs:689-706, for the addresses of the model, none
\* of which is hex: a text starting with "addr" is returned as it is
StartsWithAddr(a) ==
    a \in {ShortAddr, SplitAddr, Split20Addr, Split32Addr, AddrK1, AddrK2Base,
           AddrPtrK1, AddrScript}
\* (convert_to_bech32_AddrOnly: a conversion that fails on hex)
convert_to_bech32_AddrOnly(a) ==
    IF StartsWithAddr(a) THEN Ok(a) ELSE Err("Invalid hex address")
convert_to_bech32(a) ==
    IF StartsWithAddr(a) THEN Ok(a)
    ELSE IF a = AddrHexK1 THEN Ok(AddrK1)
    ELSE Err("Invalid hex address")

\* the subject of the session, auth.rs:242-246: the bech32 form, or the
\* address as it was normalized when the conversion fails
SessionSubject(na) ==
    IF convert_to_bech32(na).ok THEN convert_to_bech32(na).val ELSE na

\* JwtManager::generate_token, jwt.rs:27-53, as the handler sees it: a
\* token for the subject, or an error
generate_token(subject, works) ==
    IF works THEN Ok([sub |-> subject]) ELSE Err("Failed to encode JWT")

\* ------------------------------------------------------------------------
\* What clients send.  Clients sign the messages the server returned, with
\* either key, raw or wrapped the CIP-30 way, and may send damaged input.
\* ------------------------------------------------------------------------
RequestAddrs == {EmptyAddr, ShortAddr, SplitAddr, AddrK1, AddrScript}

Header == "hdr"

SigInputs ==
    {EmptySigStr, BadHexSig, HexOf(Raw64(CorruptSig))}
    \cup {HexOf(Raw64(Sign(k, Plain(MsgBytes(m))))) : k \in Keys, m \in known}
    \cup {HexOf(Sign1(Header, MsgBytes(m), Sign("K1", SigStructure(Header, MsgBytes(m))))) :
            m \in known}

KeyInputs == {HexOf(Raw32(k)) : k \in Keys}

\* rand::random(), auth.rs:82.  Nonces matter only through equality, so a
\* draw is one of the values drawn before or the least value not yet drawn.
Drawable == 1..Min(MaxNonce, nCreates + 1)

\* ------------------------------------------------------------------------
\* create_challenge, auth.rs:57-115
\* ------------------------------------------------------------------------
Finish(r, res) == [reqs[r] EXCEPT !.pc = "done", !.result = res]

\* auth.rs:66-84: validation, the logged prefixes, the nonce, the timestamp
CreateStamp(r, a, n) ==
    /\ reqs[r].op = "idle"
    /\ LET q == [IdleReq EXCEPT !.op = "create", !.addr = a] IN
       IF a = EmptyAddr
       THEN /\ reqs' = [reqs EXCEPT ![r] = [q EXCEPT !.pc = "done", !.result = "400"]]
            /\ UNCHANGED nCreates
       ELSE IF ~SliceOk(a, LOG_PREFIX) \/ ~SliceOk(normalize_address_format(a), LOG_PREFIX)
       THEN /\ reqs' = [reqs EXCEPT ![r] = [q EXCEPT !.pc = "done", !.result = "panic"]]
            /\ UNCHANGED nCreates
       ELSE /\ nCreates < MaxCreates
            /\ reqs' = [reqs EXCEPT ![r] =
                          [q EXCEPT !.pc = "format", !.nonce = n, !.ts = now,
                                    !.id = nCreates + 1]]
            /\ nCreates' = nCreates + 1
    /\ UNCHANGED <<now, challenges, known>>

\* auth.rs:86-90: the message, with the time of a second clock reading
CreateFormat(r) ==
    /\ reqs[r].op = "create" /\ reqs[r].pc = "format"
    /\ reqs' = [reqs EXCEPT ![r].pc = "store",
                            ![r].msg = Message(reqs[r].nonce, now)]
    /\ UNCHANGED <<now, challenges, known, nCreates>>

\* auth.rs:93-115: under the lock, insert and evict; then the response
CreateStore(r) ==
    /\ reqs[r].op = "create" /\ reqs[r].pc = "store"
    /\ LET q == reqs[r]
           a == normalize_address_format(q.addr)
           d == ChallengeData(q.nonce, q.msg, q.ts, q.id)
           cutoff == q.ts - TTL
       IN /\ challenges' = Retain(Insert(challenges, a, d), cutoff)
          /\ known' = known \cup {q.msg}
    /\ reqs' = [reqs EXCEPT ![r] = Finish(r, "200")]
    /\ UNCHANGED <<now, nCreates>>

\* ------------------------------------------------------------------------
\* verify_signature, auth.rs:117-265
\* ------------------------------------------------------------------------
\* VerifyLookupAddressOnly: a handler whose validation forgets the signature
VerifyLookupAddressOnly(r, a, s, k) ==
    /\ reqs[r].op = "idle"
    /\ LET q == [IdleReq EXCEPT !.op = "verify", !.addr = a, !.sig = s, !.key = k]
           na == normalize_address_format(a)
           found == Lookup(challenges, na, a)
       IN reqs' = [reqs EXCEPT ![r] =
            IF a = EmptyAddr
            THEN [q EXCEPT !.pc = "done", !.result = "400"]
            ELSE IF ~SliceOk(a, Min(AddrLen(a), LOG_PREFIX))
                    \/ ~SliceOk(na, Min(AddrLen(na), LOG_PREFIX))
            THEN [q EXCEPT !.pc = "done", !.result = "panic"]
            ELSE IF ~found.ok
            THEN [q EXCEPT !.pc = "done", !.result = "401 no challenge"]
            ELSE [q EXCEPT !.pc = "check", !.chal = found.val]]
    /\ UNCHANGED <<now, challenges, known, nCreates>>

\* auth.rs:121-155: validation, the logged prefixes, the lookup under the lock
VerifyLookup(r, a, s, k) ==
    /\ reqs[r].op = "idle"
    /\ LET q == [IdleReq EXCEPT !.op = "verify", !.addr = a, !.sig = s, !.key = k]
           na == normalize_address_format(a)
           found == Lookup(challenges, na, a)
       IN reqs' = [reqs EXCEPT ![r] =
            IF a = EmptyAddr \/ s.hex = "empty"
            THEN [q EXCEPT !.pc = "done", !.result = "400"]
            ELSE IF ~SliceOk(a, Min(AddrLen(a), LOG_PREFIX))
                    \/ ~SliceOk(na, Min(AddrLen(na), LOG_PREFIX))
            THEN [q EXCEPT !.pc = "done", !.result = "panic"]
            ELSE IF ~found.ok
            THEN [q EXCEPT !.pc = "done", !.result = "401 no challenge"]
            ELSE [q EXCEPT !.pc = "check", !.chal = found.val]]
    /\ UNCHANGED <<now, challenges, known, nCreates>>

\* VerifyCheckBurning: a handler that removes the challenge as soon as it
\* has read it, so that a failed verification consumes it
VerifyCheckBurning(r) ==
    /\ reqs[r].op = "verify" /\ reqs[r].pc = "check"
    /\ LET q == reqs[r]
           na == normalize_address_format(q.addr)
           res == verify_cardano_signature(na, q.chal.message, q.sig, q.key)
           done(result) == [q EXCEPT !.pc = "done", !.at = now, !.result = result]
       IN /\ reqs' = [reqs EXCEPT ![r] =
                IF ~SliceOk(q.addr, LOG_PREFIX) THEN done("panic")
                ELSE IF Expired(now, q.chal.timestamp) THEN done("401 expired")
                ELSE IF res = "panic" THEN done("panic")
                ELSE IF res = "false"
                THEN IF SliceOk(na, Min(AddrLen(na), LOG_DEBUG))
                     THEN done("401 invalid signature") ELSE done("panic")
                ELSE IF res = "err" THEN done("500 verification")
                ELSE [q EXCEPT !.pc = "remove", !.at = now]]
          /\ challenges' = [x \in DOMAIN challenges \ {na} |-> challenges[x]]
    /\ UNCHANGED <<now, known, nCreates>>

\* auth.rs:157-230: the expiry test, then verify_cardano_signature
VerifyCheck(r) ==
    /\ reqs[r].op = "verify" /\ reqs[r].pc = "check"
    /\ LET q == reqs[r]
           na == normalize_address_format(q.addr)
           res == verify_cardano_signature(na, q.chal.message, q.sig, q.key)
           done(result) == [q EXCEPT !.pc = "done", !.at = now, !.result = result]
       IN reqs' = [reqs EXCEPT ![r] =
            IF ~SliceOk(q.addr, LOG_PREFIX) THEN done("panic")
            ELSE IF Expired(now, q.chal.timestamp) THEN done("401 expired")
            ELSE IF res = "panic" THEN done("panic")
            ELSE IF res = "false"
            THEN IF SliceOk(na, Min(AddrLen(na), LOG_DEBUG))
                 THEN done("401 invalid signature") ELSE done("panic")
            ELSE IF res = "err" THEN done("500 verification")
            ELSE [q EXCEPT !.pc = "remove", !.at = now]]
    /\ UNCHANGED <<now, challenges, known, nCreates>>

\* auth.rs:232-264: under the lock, remove the challenge; then the logged
\* subject and the token
VerifyFinish(r, works) ==
    /\ reqs[r].op = "verify" /\ reqs[r].pc = "remove"
    /\ LET q == reqs[r]
           na == normalize_address_format(q.addr)
           subject == SessionSubject(na)
           tok == generate_token(subject, works)
       IN /\ challenges' = Remove(Remove(challenges, na), q.addr)
          /\ reqs' = [reqs EXCEPT ![r] =
                IF ~SliceOk(subject, Min(AddrLen(subject), LOG_SUBJECT))
                THEN Finish(r, "panic")
                ELSE IF tok.ok
                THEN [q EXCEPT !.pc = "done", !.result = "200", !.token = tok.val]
                ELSE Finish(r, "500 token")]
    /\ UNCHANGED <<now, known, nCreates>>

\* the response is sent and the task ends
Respond(r) ==
    /\ reqs[r].pc = "done"
    /\ reqs' = [reqs EXCEPT ![r] = IdleReq]
    /\ UNCHANGED <<now, challenges, known, nCreates>>

\* The client goes away and the handler's future is dropped.  A future is
\* dropped only where it is suspended: verify_signature awaits the store
\* lock at auth.rs:136 and at auth.rs:232 and nothing else.
\* Dropped at auth.rs:136: the request passed the validation and the log
\* line and holds no lock.
AbandonAtLookup(r, a, s, k) ==
    /\ reqs[r].op = "idle"
    /\ a # EmptyAddr /\ s.hex # "empty"
    /\ SliceOk(a, Min(AddrLen(a), LOG_PREFIX))
    /\ reqs' = [reqs EXCEPT ![r] =
                  [IdleReq EXCEPT !.op = "verify", !.addr = a, !.sig = s, !.key = k,
                                  !.pc = "done", !.result = "abandoned"]]
    /\ UNCHANGED <<now, challenges, known, nCreates>>

\* AbandonAfterRemove: a handler with a suspension point after the remove
AbandonAfterRemove(r) ==
    /\ reqs[r].op = "verify" /\ reqs[r].pc = "remove"
    /\ reqs' = [reqs EXCEPT ![r] = Finish(r, "abandoned")]
    /\ challenges' = [x \in DOMAIN challenges \ {reqs[r].addr} |-> challenges[x]]
    /\ UNCHANGED <<now, known, nCreates>>

\* Dropped at auth.rs:232, after the signature was verified
AbandonAtRemove(r) ==
    /\ reqs[r].op = "verify" /\ reqs[r].pc = "remove"
    /\ reqs' = [reqs EXCEPT ![r] = Finish(r, "abandoned")]
    /\ UNCHANGED <<now, challenges, known, nCreates>>

\* the clock advances by a second or by the time to live
Tick(d) ==
    /\ (now + d) \div TTL <= MaxTicks
    /\ (now + d) % TTL <= MaxTicks
    /\ now' = now + d
    /\ UNCHANGED <<challenges, reqs, known, nCreates>>

\* ------------------------------------------------------------------------
\* The event buffer and its statistics, models/stats.rs
\* ------------------------------------------------------------------------
\* the variants of BlockchainEvent, models/events.rs:114-159
Kinds == {"Block", "Transaction", "TxInput", "TxOutput", "RollBack", "Other"}

\* the runs of events the source may deliver: one kind only, or the six
\* kinds in turn
Streams == {"Block", "Transaction", "TxOutput", "mixed"}
KindAt(s, i) ==
    IF s # "mixed" THEN s
    ELSE CASE i % 6 = 1 -> "Block"
           [] i % 6 = 2 -> "Transaction"
           [] i % 6 = 3 -> "TxInput"
           [] i % 6 = 4 -> "TxOutput"
           [] i % 6 = 5 -> "RollBack"
           [] OTHER -> "Other"

\* the i-th event of the stream s, as convert_oura_event gives it
\* (event_processor.rs:97-149); a block carries its number and its slot
BlockchainEvent(s, i) ==
    [type |-> KindAt(s, i), id |-> i,
     number |-> IF KindAt(s, i) = "Block" THEN i ELSE 0,
     slot |-> IF KindAt(s, i) = "Block" THEN 20 * i ELSE 0]

\* AppState::new, stats.rs:34-45
AppState_new ==
    [buffer |-> <<>>, blocks_count |-> 0, transactions_count |-> 0,
     inputs_count |-> 0, outputs_count |-> 0, total_events |-> 0,
     last_block_number |-> 0, last_slot |-> 0]

\* add_event_NoEviction: an add_event that never drops the oldest event
add_event_NoEviction(s, event, buffer_size) ==
    LET counted ==
            CASE event.type = "Block" ->
                     [s EXCEPT !.blocks_count = @ + 1,
                               !.last_block_number = event.number,
                               !.last_slot = event.slot]
              [] event.type = "Transaction" -> [s EXCEPT !.transactions_count = @ + 1]
              [] event.type = "TxInput" -> [s EXCEPT !.inputs_count = @ + 1]
              [] event.type = "TxOutput" -> [s EXCEPT !.outputs_count = @ + 1]
              [] OTHER -> s
    IN [counted EXCEPT !.total_events = @ + 1, !.buffer = Append(@, event)]

\* AppState::add_event, stats.rs:48-77
add_event(s, event, buffer_size) ==
    LET counted ==
            CASE event.type = "Block" ->
                     [s EXCEPT !.blocks_count = @ + 1,
                               !.last_block_number = event.number,
                               !.last_slot = event.slot]
              [] event.type = "Transaction" -> [s EXCEPT !.transactions_count = @ + 1]
              [] event.type = "TxInput" -> [s EXCEPT !.inputs_count = @ + 1]
              [] event.type = "TxOutput" -> [s EXCEPT !.outputs_count = @ + 1]
              [] OTHER -> s
        total == [counted EXCEPT !.total_events = @ + 1]
        \* pop_front of an empty VecDeque is None
        kept == IF Len(total.buffer) >= buffer_size /\ total.buffer # <<>>
                THEN Tail(total.buffer) ELSE total.buffer
    IN [total EXCEPT !.buffer = Append(kept, event)]

\* clear_buffer_ResettingAll: a clear_buffer that starts the state anew
clear_buffer_ResettingAll(s) == AppState_new

\* AppState::clear_buffer, stats.rs:80-86
clear_buffer(s) ==
    [s EXCEPT !.buffer = <<>>, !.blocks_count = 0, !.transactions_count = 0,
              !.inputs_count = 0, !.outputs_count = 0]

\* should_clear_Above: a should_clear that waits for a counter to pass its
\* threshold
should_clear_Above(s, max_blocks, max_txs) ==
    s.blocks_count > max_blocks \/ s.transactions_count > max_txs

\* AppState::should_clear, stats.rs:89-91
should_clear(s, max_blocks, max_txs) ==
    s.blocks_count >= max_blocks \/ s.transactions_count >= max_txs

\* AppState::get_stats, stats.rs:94-105
get_stats(s) ==
    [total_events |-> s.total_events, blocks_count |-> s.blocks_count,
     transactions_count |-> s.transactions_count, inputs_count |-> s.inputs_count,
     outputs_count |-> s.outputs_count, buffer_size |-> Len(s.buffer),
     last_block_number |-> s.last_block_number, last_slot |-> s.last_slot]

\* no add_event and no send yet
NoStats == [total_events |-> 0, blocks_count |-> 0, transactions_count |-> 0,
            inputs_count |-> 0, outputs_count |-> 0, buffer_size |-> 0,
            last_block_number |-> 0, last_slot |-> 0]
\* adds: the add_event calls; since: the events added since the last clear;
\* last: the last call on the AppState; sends: the ws_tx.send calls of
\* process_event; seen: the receiver_count at each stats decision; stats:
\* the last stats message process_event sent
NoHist ==
    [adds |-> 0, since |-> <<>>, last |-> "none", sends |-> <<>>, seen |-> <<>>,
     stats |-> NoStats]

\* ------------------------------------------------------------------------
\* The tasks of the event pipeline
\* ------------------------------------------------------------------------
Clients == {"c1"}

NoEvent == [type |-> "Other", id |-> 0, number |-> 0, slot |-> 0]
\* the processing task between two events
IdleProc == [pc |-> "recv", read |-> 0, event |-> NoEvent]

\* a WebSocket message: a stats message or an event, made for the event id
StatsMessage(id) == [type |-> "stats", id |-> id]
EventMessage(event) == [type |-> "event", id |-> event.id]

\* a client that has not connected.  sent: the messages written to its
\* socket; unread: how many of them it has not read; conn: whether it
\* reads, has stopped reading, or has closed the connection; cursor: the
\* messages of ws_tx its receiver is past; snap: the buffered events
\* written; at: the send calls made and events added when it subscribed and
\* when it took its snapshot
\* a client that has not connected.  rx: whether its receiver exists; sent:
\* the messages written to its socket; unread: how many of them it has not
\* read; conn: whether it reads, has stopped reading, or has closed the
\* connection; cursor: the messages of ws_tx its receiver is past; snap:
\* the buffered events written; subscribed_at, snapshot, snapshot_total:
\* the send calls made when it subscribed, the buffer and total_events
\* when it took the lock
NoClient ==
    [pc |-> "none", rx |-> FALSE, conn |-> "open", sent |-> <<>>, unread |-> 0,
     cursor |-> 0, snap |-> 0, subscribed_at |-> 0, snapshot |-> <<>>,
     snapshot_total |-> 0]
\* a client that connected before the first event
EarlyClient ==
    [NoClient EXCEPT !.pc = "live", !.rx = TRUE, !.sent = <<StatsMessage(0)>>]

\* ws_tx.receiver_count(): the receivers alive.  handle_socket makes one at
\* axum_handler.rs:30 and it lives until the send task ends
Subscribed(c) == clients[c].rx
receiver_count == Cardinality({c \in Clients : Subscribed(c)})

\* ws_tx.send(msg): with no receiver the message is dropped and the call
\* returns an error
send(ch, msg) == IF receiver_count > 0 THEN Append(ch, msg) ELSE ch

\* should_send_stats_OnBlocksOnly: a rule without the every-fifth-event case
should_send_stats_OnBlocksOnly(event, s) ==
    event.type \in {"Block", "Transaction"}

\* event_processor.rs:48-51
should_send_stats(event, s) ==
    IF event.type \in {"Block", "Transaction"} THEN TRUE
    ELSE s.total_events % STATS_PERIOD = 0

\* main.rs:95: the next event of the source; event_processor.rs:28-31: it
\* is converted and logged
ProcRecv(limit) ==
    /\ proc.pc = "recv"
    /\ proc.read < limit
    /\ proc' = [proc EXCEPT !.pc = "lock", !.read = @ + 1,
                            !.event = BlockchainEvent(stream, proc.read + 1)]
    /\ UNCHANGED <<avars, stream, state, state_lock, ws_tx, clients, hist>>

\* event_processor.rs:35: self.state.lock().await
ProcLock ==
    /\ proc.pc = "lock"
    /\ state_lock = "free"
    /\ state_lock' = "processor"
    /\ proc' = [proc EXCEPT !.pc = "add"]
    /\ UNCHANGED <<avars, stream, state, ws_tx, clients, hist>>

\* event_processor.rs:36
ProcAdd ==
    /\ proc.pc = "add"
    /\ state' = add_event(state, proc.event, BUFFER_SIZE)
    /\ hist' = [hist EXCEPT !.adds = @ + 1, !.since = Append(@, proc.event),
                            !.last = "add_event"]
    /\ proc' = [proc EXCEPT !.pc = "clear"]
    /\ UNCHANGED <<avars, stream, state_lock, ws_tx, clients>>

\* event_processor.rs:39-45
ProcClear ==
    /\ proc.pc = "clear"
    /\ IF should_clear(state, MAX_BLOCK_COUNT, MAX_TX_COUNT)
       THEN /\ state' = clear_buffer(state)
            /\ hist' = [hist EXCEPT !.since = <<>>, !.last = "clear_buffer"]
       ELSE UNCHANGED <<state, hist>>
    /\ proc' = [proc EXCEPT !.pc = "stats"]
    /\ UNCHANGED <<avars, stream, state_lock, ws_tx, clients>>

\* event_processor.rs:48-82: the stats message, if it is due and someone
\* listens; the lock is released at the end of the block
ProcStats ==
    /\ proc.pc = "stats"
    /\ IF should_send_stats(proc.event, state) /\ receiver_count > 0
       THEN /\ ws_tx' = send(ws_tx, StatsMessage(proc.event.id))
            /\ hist' = [hist EXCEPT
                          !.sends = Append(@, [type |-> "stats", id |-> proc.event.id,
                                               receivers |-> receiver_count]),
                          !.seen = Append(@, receiver_count),
                          !.stats = get_stats(state)]
       ELSE /\ hist' = [hist EXCEPT !.seen = Append(@, receiver_count)]
            /\ UNCHANGED ws_tx
    /\ state_lock' = "free"
    /\ proc' = [proc EXCEPT !.pc = "send"]
    /\ UNCHANGED <<avars, stream, state, clients>>

\* event_processor.rs:85-93: the event itself, sent after the lock
ProcBroadcast ==
    /\ proc.pc = "send"
    /\ ws_tx' = send(ws_tx, EventMessage(proc.event))
    /\ hist' = [hist EXCEPT
                  !.sends = Append(@, [type |-> "event", id |-> proc.event.id,
                                       receivers |-> receiver_count])]
    /\ proc' = [proc EXCEPT !.pc = "recv"]
    /\ UNCHANGED <<avars, stream, state, state_lock, clients>>

ProcRecvAlone == ProcRecv(MaxEvents)

\* process_event run alone on a long stream, with no client or with one
\* that connected before the first event
NextProcess ==
    \/ ProcRecvAlone
    \/ ProcLock
    \/ ProcAdd
    \/ ProcClear
    \/ ProcStats
    \/ ProcBroadcast


\* ------------------------------------------------------------------------
\* Specifications
\* ------------------------------------------------------------------------
\* the event pipeline at the start of main, with the source s and every
\* client as `first`
InitPipeline(s, first) ==
    /\ stream = s
    /\ state = AppState_new
    /\ state_lock = "free"
    /\ proc = IdleProc
    /\ ws_tx = <<>>
    /\ clients = [c \in Clients |-> first]
    /\ hist = NoHist

InitAuth ==
    /\ now = 0
    /\ challenges = [x \in {} |-> NoChallenge]
    /\ reqs = [r \in ConcTasks |-> IdleReq]
    /\ known = {}
    /\ nCreates = 0
    /\ consumed = {}
    /\ base = [x \in {} |-> NoChallenge]
    /\ call = NoCall
    /\ challenges_lock = "free"

Init == InitAuth /\ InitPipeline("mixed", NoClient)

\* add_event and clear_buffer called in any order on the events of a stream
AddEvent ==
    /\ hist.adds < MaxAdds
    /\ LET event == BlockchainEvent(stream, hist.adds + 1) IN
       /\ state' = add_event(state, event, BUFFER_SIZE)
       /\ hist' = [hist EXCEPT !.adds = @ + 1, !.since = Append(@, event),
                               !.last = "add_event"]
    /\ UNCHANGED <<avars, stream, state_lock, proc, ws_tx, clients>>

ClearBuffer ==
    /\ state' = clear_buffer(state)
    /\ hist' = [hist EXCEPT !.since = <<>>, !.last = "clear_buffer"]
    /\ UNCHANGED <<avars, stream, state_lock, proc, ws_tx, clients>>

NextBuffer == AddEvent \/ ClearBuffer

\* ------------------------------------------------------------------------
\* handle_socket, websocket/axum_handler.rs:25-99
\* ------------------------------------------------------------------------
\* handle_socket_SnapshotFirst: a handler that subscribes to the channel
\* after it has sent the snapshot
handle_socket_SnapshotFirst(done) ==
    CASE done = "connect" -> "lock"
      [] done = "lock" -> "stats"
      [] done = "stats" -> "events"
      [] done = "events" -> "subscribe"
      [] OTHER -> "live"

\* the step handle_socket takes after the step `done`: subscribe
\* (axum_handler.rs:30), lock (34), stats (35-46), events (49-56), then the
\* send task (59-69)
handle_socket(done) ==
    CASE done = "connect" -> "subscribe"
      [] done = "subscribe" -> "lock"
      [] done = "lock" -> "stats"
      [] done = "stats" -> "events"
      [] OTHER -> "live"

\* ws_sender.send(msg).await returns once the socket took the message, or
\* at once with an error when the connection is closed
SocketTakes(cl) == cl.conn = "closed" \/ cl.unread < SocketBuffer
Write(cl, msg) ==
    IF cl.conn = "closed" THEN cl
    ELSE [cl EXCEPT !.sent = Append(@, msg), !.unread = @ + 1]

\* axum_handler.rs:22-29: the upgrade, socket.split()
WsConnect(c) ==
    /\ clients[c].pc = "none"
    /\ clients' = [clients EXCEPT ![c].pc = handle_socket("connect")]
    /\ UNCHANGED <<avars, stream, state, state_lock, proc, ws_tx, hist>>

\* axum_handler.rs:30: state.ws_tx.subscribe()
WsSubscribe(c) ==
    /\ clients[c].pc = "subscribe"
    /\ clients' = [clients EXCEPT ![c].pc = handle_socket("subscribe"),
                                  ![c].rx = TRUE,
                                  ![c].cursor = Len(ws_tx),
                                  ![c].subscribed_at = Len(hist.sends)]
    /\ UNCHANGED <<avars, stream, state, state_lock, proc, ws_tx, hist>>

\* axum_handler.rs:34: state.app_state.lock().await
WsLock(c) ==
    /\ clients[c].pc = "lock"
    /\ state_lock = "free"
    /\ state_lock' = c
    /\ clients' = [clients EXCEPT ![c].pc = handle_socket("lock"),
                                  ![c].snapshot = state.buffer,
                                  ![c].snapshot_total = state.total_events]
    /\ UNCHANGED <<avars, stream, state, proc, ws_tx, hist>>

\* axum_handler.rs:35-46: the stats message, under the lock
WsSendStats(c) ==
    /\ clients[c].pc = "stats"
    /\ state_lock = c
    /\ SocketTakes(clients[c])
    /\ clients' = [clients EXCEPT
                     ![c] = [Write(@, StatsMessage(state.total_events))
                               EXCEPT !.pc = handle_socket("stats"), !.snap = 0]]
    /\ UNCHANGED <<avars, stream, state, state_lock, proc, ws_tx, hist>>

\* axum_handler.rs:49-55: the next buffered event, under the lock
WsSendEvent(c) ==
    /\ clients[c].pc = "events"
    /\ state_lock = c
    /\ clients[c].snap < Len(state.buffer)
    /\ SocketTakes(clients[c])
    /\ clients' = [clients EXCEPT
                     ![c] = [Write(@, EventMessage(state.buffer[clients[c].snap + 1]))
                               EXCEPT !.snap = @ + 1]]
    /\ UNCHANGED <<avars, stream, state, state_lock, proc, ws_tx, hist>>

\* axum_handler.rs:56: the end of the block drops the guard
WsUnlock(c) ==
    /\ clients[c].pc = "events"
    /\ state_lock = c
    /\ clients[c].snap = Len(state.buffer)
    /\ state_lock' = "free"
    /\ clients' = [clients EXCEPT ![c].pc = handle_socket("events")]
    /\ UNCHANGED <<avars, stream, state, proc, ws_tx, hist>>

\* axum_handler.rs:59-69: the send task forwards the next broadcast; a
\* receiver that fell behind the channel's capacity gets Err(Lagged) and a
\* closed socket gives a send error: both end the loop
WsForward(c) ==
    /\ clients[c].pc = "live"
    /\ clients[c].cursor < Len(ws_tx)
    /\ SocketTakes(clients[c])
    /\ clients' = [clients EXCEPT ![c] =
          IF Len(ws_tx) - clients[c].cursor > CHANNEL_CAPACITY
             \/ clients[c].conn = "closed"
          THEN [@ EXCEPT !.pc = "closed", !.rx = FALSE]
          ELSE [Write(@, ws_tx[clients[c].cursor + 1]) EXCEPT !.cursor = @ + 1]]
    /\ UNCHANGED <<avars, stream, state, state_lock, proc, ws_tx, hist>>

\* axum_handler.rs:72-96: the receive task sees the close and the send
\* task is aborted
WsEnd(c) ==
    /\ clients[c].pc = "live"
    /\ clients[c].conn = "closed"
    /\ clients' = [clients EXCEPT ![c].pc = "closed", ![c].rx = FALSE]
    /\ UNCHANGED <<avars, stream, state, state_lock, proc, ws_tx, hist>>

\* the client reads a message from its socket
ClientReads(c) ==
    /\ clients[c].conn = "open"
    /\ clients[c].unread > 0
    /\ clients' = [clients EXCEPT ![c].unread = @ - 1]
    /\ UNCHANGED <<avars, stream, state, state_lock, proc, ws_tx, hist>>

\* the client stops reading and keeps the connection
ClientStops(c) ==
    /\ clients[c].pc \notin {"none", "closed"}
    /\ clients[c].conn = "open"
    /\ clients' = [clients EXCEPT ![c].conn = "stalled"]
    /\ UNCHANGED <<avars, stream, state, state_lock, proc, ws_tx, hist>>

\* the client closes the connection
ClientCloses(c) ==
    /\ clients[c].pc \notin {"none", "closed"}
    /\ clients[c].conn # "closed"
    /\ clients' = [clients EXCEPT ![c].conn = "closed"]
    /\ UNCHANGED <<avars, stream, state, state_lock, proc, ws_tx, hist>>

ProcRecvWs == ProcRecv(MaxWsEvents)

\* what the handler task of client c does
Serves(c) ==
    \/ WsConnect(c) \/ WsSubscribe(c) \/ WsSendStats(c) \/ WsSendEvent(c)
    \/ WsUnlock(c) \/ WsForward(c) \/ WsEnd(c)
\* what the processing task does once it has an event
Processes == ProcAdd \/ ProcClear \/ ProcStats \/ ProcBroadcast

\* the processing task and a WebSocket client side by side
NextWs ==
    \/ ProcRecvWs
    \/ ProcLock
    \/ ProcAdd
    \/ ProcClear
    \/ ProcStats
    \/ ProcBroadcast
    \/ \E c \in Clients : WsConnect(c)
    \/ \E c \in Clients : WsSubscribe(c)
    \/ \E c \in Clients : WsLock(c)
    \/ \E c \in Clients : WsSendStats(c)
    \/ \E c \in Clients : WsSendEvent(c)
    \/ \E c \in Clients : WsUnlock(c)
    \/ \E c \in Clients : WsForward(c)
    \/ \E c \in Clients : WsEnd(c)
    \/ \E c \in Clients : ClientReads(c)
    \/ \E c \in Clients : ClientStops(c)
    \/ \E c \in Clients : ClientCloses(c)

InitWs == InitAuth /\ \E s \in Streams : InitPipeline(s, NoClient)

SpecWs == InitWs /\ [][NextWs]_vars

\* The runtime polls every task that can run, and the AppState lock, a
\* tokio Mutex, goes to its waiters in turn.  Nothing makes a client read.
SpecWsFair ==
    /\ InitWs
    /\ [][NextWs]_vars
    /\ WF_vars(ProcRecvWs) /\ WF_vars(Processes) /\ SF_vars(ProcLock)
    /\ \A c \in Clients : WF_vars(Serves(c)) /\ SF_vars(WsLock(c))

InitProcess ==
    InitAuth /\ \E s \in Streams, first \in {NoClient, EarlyClient} : InitPipeline(s, first)

SpecProcess == InitProcess /\ [][NextProcess]_vars

InitBuffer == InitAuth /\ \E s \in Streams : InitPipeline(s, NoClient)

SpecBuffer == InitBuffer /\ [][NextBuffer]_vars

\* requests served one after the other
Next ==
    \/ /\ \E r \in SeqTasks, a \in RequestAddrs, n \in Drawable : CreateStamp(r, a, n)
       /\ UNCHANGED <<consumed, base, call, evars>>
    \/ /\ \E r \in SeqTasks : CreateFormat(r)
       /\ UNCHANGED <<consumed, base, call, evars>>
    \/ /\ \E r \in SeqTasks : CreateStore(r)
       /\ UNCHANGED <<consumed, base, call, evars>>
    \/ /\ \E r \in SeqTasks, a \in RequestAddrs, s \in SigInputs, k \in KeyInputs :
             VerifyLookup(r, a, s, k)
       /\ UNCHANGED <<consumed, base, call, evars>>
    \/ /\ \E r \in SeqTasks : VerifyCheck(r)
       /\ UNCHANGED <<consumed, base, call, evars>>
    \/ /\ \E r \in SeqTasks, works \in BOOLEAN : VerifyFinish(r, works)
       /\ UNCHANGED <<consumed, base, call, evars>>
    \/ /\ \E r \in SeqTasks : Respond(r)
       /\ UNCHANGED <<consumed, base, call, evars>>
    \/ /\ \E d \in {1, TTL} : Tick(d)
       /\ UNCHANGED <<consumed, base, call, evars>>

Spec == Init /\ [][Next]_vars

\* The same run, remembering in `consumed` the addresses whose last
\* completed request was a successful verification
ConsumedNext ==
    (consumed \cup {reqs'[r].addr : r \in {t \in ConcTasks :
                        reqs[t].pc = "remove" /\ reqs'[t].result = "200"}})
    \ {reqs'[r].addr : r \in {t \in ConcTasks :
                        reqs[t].pc = "store" /\ reqs'[t].pc = "done"}}

NextHist ==
    \/ /\ \E r \in SeqTasks, a \in RequestAddrs, n \in Drawable : CreateStamp(r, a, n)
       /\ consumed' = ConsumedNext
       /\ UNCHANGED <<base, call, evars>>
    \/ /\ \E r \in SeqTasks : CreateFormat(r)
       /\ consumed' = ConsumedNext
       /\ UNCHANGED <<base, call, evars>>
    \/ /\ \E r \in SeqTasks : CreateStore(r)
       /\ consumed' = ConsumedNext
       /\ UNCHANGED <<base, call, evars>>
    \/ /\ \E r \in SeqTasks, a \in RequestAddrs, s \in SigInputs, k \in KeyInputs :
             VerifyLookup(r, a, s, k)
       /\ consumed' = ConsumedNext
       /\ UNCHANGED <<base, call, evars>>
    \/ /\ \E r \in SeqTasks : VerifyCheck(r)
       /\ consumed' = ConsumedNext
       /\ UNCHANGED <<base, call, evars>>
    \/ /\ \E r \in SeqTasks, works \in BOOLEAN : VerifyFinish(r, works)
       /\ consumed' = ConsumedNext
       /\ UNCHANGED <<base, call, evars>>
    \/ /\ \E r \in SeqTasks : Respond(r)
       /\ consumed' = ConsumedNext
       /\ UNCHANGED <<base, call, evars>>
    \/ /\ \E d \in {1, TTL} : Tick(d)
       /\ consumed' = ConsumedNext
       /\ UNCHANGED <<base, call, evars>>

SpecHist == Init /\ [][NextHist]_vars

\* two requests served side by side, by clients that hold key K1 and sign
\* the messages they were given
HonestSigs == {HexOf(Raw64(Sign("K1", Plain(MsgBytes(m))))) : m \in known}
HonestKeys == {HexOf(Raw32("K1"))}

NextConc ==
    \/ /\ \E r \in ConcTasks, a \in {AddrK1}, n \in Drawable : CreateStamp(r, a, n)
       /\ UNCHANGED <<consumed, base, call, evars>>
    \/ /\ \E r \in ConcTasks : CreateFormat(r)
       /\ UNCHANGED <<consumed, base, call, evars>>
    \/ /\ \E r \in ConcTasks : CreateStore(r)
       /\ UNCHANGED <<consumed, base, call, evars>>
    \/ /\ \E r \in ConcTasks, a \in {AddrK1}, s \in HonestSigs, k \in HonestKeys :
             VerifyLookup(r, a, s, k)
       /\ UNCHANGED <<consumed, base, call, evars>>
    \/ /\ \E r \in ConcTasks : VerifyCheck(r)
       /\ UNCHANGED <<consumed, base, call, evars>>
    \/ /\ \E r \in ConcTasks, works \in BOOLEAN : VerifyFinish(r, works)
       /\ UNCHANGED <<consumed, base, call, evars>>
    \/ /\ \E r \in ConcTasks : Respond(r)
       /\ UNCHANGED <<consumed, base, call, evars>>
    \/ /\ \E d \in {1, TTL} : Tick(d)
       /\ UNCHANGED <<consumed, base, call, evars>>

SpecConc == Init /\ [][NextConc]_vars

\* The store as it was when the requests in flight began: taken anew each
\* time a request begins while no other is in flight
BaseNext ==
    IF \E r \in ConcTasks :
          /\ reqs[r].op = "idle" /\ reqs'[r].op # "idle"
          /\ \A t \in ConcTasks \ {r} : reqs[t].op = "idle"
    THEN challenges ELSE base

\* requests served one after the other, by clients that also send damaged
\* envelopes and payloads of their own
EnvAddrs == {EmptyAddr, SplitAddr, Split20Addr, Split32Addr, AddrK1}

\* bytes that are not 64 long and are no complete CBOR item
TruncatedSig == HexOf(CborSig(CborFail))
\* a CBOR item that is no array
ScalarSig == HexOf(CborSig(CborScalar))
\* an array of three elements
ShortArraySig ==
    HexOf(CborSig(CborArray(<<BytesEl(PhLen(Header), TextBlob(Header)), MapEl,
                              BytesEl(64, SigBlob(CorruptSig))>>)))
\* a COSE_Sign1 whose signature element is 63 bytes long
ShortSigSign1 ==
    HexOf(CborSig(CborArray(<<BytesEl(PhLen(Header), TextBlob(Header)), MapEl,
                              BytesEl(0, BodyBlob(EmptyBytes)),
                              BytesEl(63, SigBlob(CorruptSig))>>)))
\* a COSE_Sign1 signed by K1 the COSE way over a text payload of its own
SplitPayloadSig ==
    HexOf(Sign1(Header, SplitBytes, Sign("K1", SigStructure(Header, SplitBytes))))

EnvSigs ==
    {EmptySigStr, BadHexSig, TruncatedSig, ScalarSig, ShortArraySig, ShortSigSign1,
     SplitPayloadSig, HexOf(Raw64(CorruptSig))}
    \cup {HexOf(Raw64(Sign("K1", Plain(MsgBytes(m))))) : m \in known}

\* bytes that are not 32 long and are no complete CBOR item
TruncatedKey == HexOf(CborKey(CborFail))
\* a COSE_Key whose entry -2 is 31 bytes long
ShortCoseKey ==
    HexOf(CborKey(CborMap(<<Entry(IntEl(1), IntEl(1)),
                            Entry(IntEl(-2), BytesEl(31, TextBlob("K1")))>>)))
\* a COSE_Key without the entry -2
NoXCoseKey == HexOf(CborKey(CborMap(<<Entry(IntEl(1), IntEl(1))>>)))

EnvKeys ==
    {EmptyKeyStr, BadHexKey, TruncatedKey, ShortCoseKey, NoXCoseKey,
     HexOf(Raw32("K1")), HexOf(Raw32("KX")), HexOf(CoseKey("K1"))}

NextEnv ==
    \/ /\ \E r \in SeqTasks, a \in EnvAddrs, n \in Drawable : CreateStamp(r, a, n)
       /\ base' = BaseNext
       /\ UNCHANGED <<consumed, call, evars>>
    \/ /\ \E r \in SeqTasks : CreateFormat(r)
       /\ base' = BaseNext
       /\ UNCHANGED <<consumed, call, evars>>
    \/ /\ \E r \in SeqTasks : CreateStore(r)
       /\ base' = BaseNext
       /\ UNCHANGED <<consumed, call, evars>>
    \/ /\ \E r \in SeqTasks, a \in EnvAddrs, s \in EnvSigs, k \in EnvKeys :
             VerifyLookup(r, a, s, k)
       /\ base' = BaseNext
       /\ UNCHANGED <<consumed, call, evars>>
    \/ /\ \E r \in SeqTasks : VerifyCheck(r)
       /\ base' = BaseNext
       /\ UNCHANGED <<consumed, call, evars>>
    \/ /\ \E r \in SeqTasks, works \in BOOLEAN : VerifyFinish(r, works)
       /\ base' = BaseNext
       /\ UNCHANGED <<consumed, call, evars>>
    \/ /\ \E r \in SeqTasks : Respond(r)
       /\ base' = BaseNext
       /\ UNCHANGED <<consumed, call, evars>>
    \/ /\ \E d \in {1, TTL} : Tick(d)
       /\ base' = BaseNext
       /\ UNCHANGED <<consumed, call, evars>>

SpecEnv == Init /\ [][NextEnv]_vars

\* requests served one after the other, some of them abandoned, with the
\* store each began from kept in `base`
SnapAddrs == {EmptyAddr, AddrK1, AddrScript}
SnapSigs == {EmptySigStr, HexOf(Raw64(CorruptSig))} \cup HonestSigs

NextSnap ==
    \/ /\ \E r \in SeqTasks, a \in SnapAddrs, n \in Drawable : CreateStamp(r, a, n)
       /\ base' = BaseNext
       /\ UNCHANGED <<consumed, call, evars>>
    \/ /\ \E r \in SeqTasks : CreateFormat(r)
       /\ base' = BaseNext
       /\ UNCHANGED <<consumed, call, evars>>
    \/ /\ \E r \in SeqTasks : CreateStore(r)
       /\ base' = BaseNext
       /\ UNCHANGED <<consumed, call, evars>>
    \/ /\ \E r \in SeqTasks, a \in SnapAddrs, s \in SnapSigs, k \in HonestKeys :
             VerifyLookup(r, a, s, k)
       /\ base' = BaseNext
       /\ UNCHANGED <<consumed, call, evars>>
    \/ /\ \E r \in SeqTasks : VerifyCheck(r)
       /\ base' = BaseNext
       /\ UNCHANGED <<consumed, call, evars>>
    \/ /\ \E r \in SeqTasks, works \in BOOLEAN : VerifyFinish(r, works)
       /\ base' = BaseNext
       /\ UNCHANGED <<consumed, call, evars>>
    \/ /\ \E r \in SeqTasks, a \in SnapAddrs, s \in SnapSigs, k \in HonestKeys :
             AbandonAtLookup(r, a, s, k)
       /\ base' = BaseNext
       /\ UNCHANGED <<consumed, call, evars>>
    \/ /\ \E r \in SeqTasks : AbandonAtRemove(r)
       /\ base' = BaseNext
       /\ UNCHANGED <<consumed, call, evars>>
    \/ /\ \E r \in SeqTasks : Respond(r)
       /\ base' = BaseNext
       /\ UNCHANGED <<consumed, call, evars>>
    \/ /\ \E d \in {1, TTL} : Tick(d)
       /\ base' = BaseNext
       /\ UNCHANGED <<consumed, call, evars>>

SpecSnap == Init /\ [][NextSnap]_vars

\* the responses of the requests in flight are sent once all of them are done
RespondAll ==
    /\ \E r \in ConcTasks : reqs[r].pc = "done"
    /\ \A r \in ConcTasks : reqs[r].op = "idle" \/ reqs[r].pc = "done"
    /\ reqs' = [r \in ConcTasks |-> IdleReq]
    /\ UNCHANGED <<now, challenges, known, nCreates>>

\* two requests served side by side, as in SpecConc, with the store they
\* began from kept in `base`
NextSer ==
    \/ /\ \E r \in ConcTasks, a \in {AddrK1}, n \in Drawable : CreateStamp(r, a, n)
       /\ base' = BaseNext
       /\ UNCHANGED <<consumed, call, evars>>
    \/ /\ \E r \in ConcTasks : CreateFormat(r)
       /\ base' = BaseNext
       /\ UNCHANGED <<consumed, call, evars>>
    \/ /\ \E r \in ConcTasks : CreateStore(r)
       /\ base' = BaseNext
       /\ UNCHANGED <<consumed, call, evars>>
    \/ /\ \E r \in ConcTasks, a \in {AddrK1}, s \in HonestSigs, k \in HonestKeys :
             VerifyLookup(r, a, s, k)
       /\ base' = BaseNext
       /\ UNCHANGED <<consumed, call, evars>>
    \/ /\ \E r \in ConcTasks : VerifyCheck(r)
       /\ base' = BaseNext
       /\ UNCHANGED <<consumed, call, evars>>
    \/ /\ \E r \in ConcTasks, works \in BOOLEAN : VerifyFinish(r, works)
       /\ base' = BaseNext
       /\ UNCHANGED <<consumed, call, evars>>
    \/ /\ RespondAll
       /\ base' = BaseNext
       /\ UNCHANGED <<consumed, call, evars>>
    \/ /\ \E d \in {1, TTL} : Tick(d)
       /\ base' = BaseNext
       /\ UNCHANGED <<consumed, call, evars>>

SpecSer == Init /\ [][NextSer]_vars

\* ------------------------------------------------------------------------
\* The handlers with the store lock taken and released a step at a time
\* ------------------------------------------------------------------------
\* state.challenges.lock().await, auth.rs:93, 136 and 232: the task waits
\* until the lock is free and takes it
Acquire(r) ==
    /\ reqs[r].pc \in {"store", "lookup", "remove"}
    /\ challenges_lock = "free"
    /\ challenges_lock' = r
    /\ UNCHANGED <<now, challenges, reqs, known, nCreates, consumed, base, call, pvars>>

\* auth.rs:121-134: validation and the logged prefixes; the request then
\* waits for the lock of auth.rs:136
VerifyArrive(r, a, s, k) ==
    /\ reqs[r].op = "idle"
    /\ LET q == [IdleReq EXCEPT !.op = "verify", !.addr = a, !.sig = s, !.key = k]
           na == normalize_address_format(a)
       IN reqs' = [reqs EXCEPT ![r] =
            IF a = EmptyAddr \/ s.hex = "empty"
            THEN [q EXCEPT !.pc = "done", !.result = "400"]
            ELSE IF ~SliceOk(a, Min(AddrLen(a), LOG_PREFIX))
                    \/ ~SliceOk(na, Min(AddrLen(na), LOG_PREFIX))
            THEN [q EXCEPT !.pc = "done", !.result = "panic"]
            ELSE [q EXCEPT !.pc = "lookup"]]
    /\ UNCHANGED <<now, challenges, known, nCreates>>

\* auth.rs:136-155: under the lock, the lookup; the guard is dropped at
\* auth.rs:141
VerifyRead(r) ==
    /\ reqs[r].op = "verify" /\ reqs[r].pc = "lookup"
    /\ challenges_lock = r
    /\ LET q == reqs[r]
           found == Lookup(challenges, normalize_address_format(q.addr), q.addr)
       IN reqs' = [reqs EXCEPT ![r] =
            IF ~found.ok
            THEN [q EXCEPT !.pc = "done", !.result = "401 no challenge"]
            ELSE [q EXCEPT !.pc = "check", !.chal = found.val]]
    /\ challenges_lock' = "free"
    /\ UNCHANGED <<now, challenges, known, nCreates>>

LockArrive(r, a, s, k) ==
    VerifyArrive(r, a, s, k) /\ UNCHANGED <<consumed, base, call, evars>>
LockStamp(r, a, n) ==
    CreateStamp(r, a, n) /\ UNCHANGED <<consumed, base, call, evars>>
LockFormat(r) ==
    CreateFormat(r) /\ UNCHANGED <<consumed, base, call, evars>>
\* auth.rs:93-115: the guard lives to the end of the function
LockStore(r) ==
    /\ challenges_lock = r
    /\ CreateStore(r)
    /\ challenges_lock' = "free"
    /\ UNCHANGED <<consumed, base, call, pvars>>
LockRead(r) ==
    VerifyRead(r) /\ UNCHANGED <<consumed, base, call, pvars>>
LockCheck(r) ==
    VerifyCheck(r) /\ UNCHANGED <<consumed, base, call, evars>>
\* auth.rs:232-264: the guard is dropped at auth.rs:236
LockFinish(r) ==
    /\ challenges_lock = r
    /\ \E works \in BOOLEAN : VerifyFinish(r, works)
    /\ challenges_lock' = "free"
    /\ UNCHANGED <<consumed, base, call, pvars>>
LockRespond(r) ==
    Respond(r) /\ UNCHANGED <<consumed, base, call, evars>>
LockTick ==
    (\E d \in {1, TTL} : Tick(d)) /\ UNCHANGED <<consumed, base, call, evars>>

\* what a handler task does between its suspension points
Runs(r) ==
    LockFormat(r) \/ LockStore(r) \/ LockRead(r) \/ LockCheck(r) \/ LockFinish(r)
    \/ LockRespond(r)

LockAddrs == {ShortAddr, AddrK1}

NextLock ==
    \/ \E r \in ConcTasks, a \in LockAddrs, n \in Drawable : LockStamp(r, a, n)
    \/ \E r \in ConcTasks, a \in LockAddrs, s \in HonestSigs \cup {EmptySigStr},
          k \in HonestKeys : LockArrive(r, a, s, k)
    \/ \E r \in ConcTasks : Acquire(r)
    \/ \E r \in ConcTasks : LockFormat(r)
    \/ \E r \in ConcTasks : LockStore(r)
    \/ \E r \in ConcTasks : LockRead(r)
    \/ \E r \in ConcTasks : LockCheck(r)
    \/ \E r \in ConcTasks : LockFinish(r)
    \/ \E r \in ConcTasks : LockRespond(r)
    \/ LockTick

\* Every task that can run does run (the tokio scheduler polls every woken
\* task), and tokio's Mutex hands the lock to its waiters in the order they
\* asked: a task that waits for the lock gets it.
SpecLock ==
    /\ Init
    /\ [][NextLock]_vars
    /\ \A r \in ConcTasks : WF_vars(Runs(r)) /\ SF_vars(Acquire(r))

\* ------------------------------------------------------------------------
\* The functions of the verifier applied on their own, once, to inputs
\* drawn from the sets below
\* ------------------------------------------------------------------------
PureMsgs == {Message(n, 0) : n \in Nonces}
PureBodies ==
    {EmptyBytes, OtherBytes, SplitBytes}
    \cup {MsgBytes(m) : m \in PureMsgs} \cup {HexText(MsgBytes(m)) : m \in PureMsgs}
PureHeaders == {"", Header}
\* what a client may have signed: a body as it is, or a Sig_structure
PureSigned ==
    {Plain(b) : b \in PureBodies}
    \cup {SigStructure(ph, b) : ph \in PureHeaders, b \in PureBodies}
\* 64 bytes: a signature by one of the keys, or no signature at all
PureRawSigs == {CorruptSig} \cup {Sign(k, d) : k \in Keys, d \in PureSigned}
PureEnvelopes ==
    {BadHexSig, TruncatedSig}
    \cup {HexOf(Raw64(s)) : s \in PureRawSigs}
    \cup {HexOf(Sign1(ph, b, s)) : ph \in PureHeaders, b \in PureBodies, s \in PureRawSigs}
    \cup {HexOf(Sign1NullPayload(ph, s)) : ph \in PureHeaders, s \in PureRawSigs}
PureKeys == {BadHexKey, HexOf(CoseKey("K1"))} \cup {HexOf(Raw32(k)) : k \in RawKeys}
PureAddrs == {AddrK1, AddrScript}

\* the result of the address check as a text
BindText(res) ==
    IF res.ok THEN (IF res.val = TRUE THEN "Ok(true)" ELSE "Ok(false)") ELSE res.val

\* verify_cardano_signature(a, m, s, k)
CallVerifier(a, m, s, k) ==
    /\ call = NoCall
    /\ call' = [NoCall EXCEPT !.fn = "verify_cardano_signature", !.addr = a,
                              !.msg = m, !.sig = s, !.key = k,
                              !.out = verify_cardano_signature(a, m, s, k),
                              !.outThree = verify_three_candidates(a, m, s, k)]
    /\ UNCHANGED <<now, challenges, reqs, known, nCreates, consumed, base, evars>>

\* verify_cardano_signature on the three envelopes that carry the 64 bytes
\* sg: the 64 bytes alone, a COSE_Sign1 with an empty payload, a COSE_Sign1
\* with a null payload, both with the protected header ph
CallShapes(a, m, sg, ph, k) ==
    /\ call = NoCall
    /\ call' = [NoCall EXCEPT
                  !.fn = "shapes", !.addr = a, !.msg = m, !.s = sg, !.ph = ph, !.key = k,
                  !.out = verify_cardano_signature(a, m, HexOf(Raw64(sg)), k),
                  !.outSign1 =
                      verify_cardano_signature(a, m, HexOf(Sign1(ph, EmptyBytes, sg)), k),
                  !.outNull =
                      verify_cardano_signature(a, m, HexOf(Sign1NullPayload(ph, sg)), k)]
    /\ UNCHANGED <<now, challenges, reqs, known, nCreates, consumed, base, evars>>

\* verify_address_from_public_key(a, k)
CallBinder(a, k) ==
    /\ call = NoCall
    /\ call' = [NoCall EXCEPT !.fn = "verify_address_from_public_key", !.addr = a,
                              !.raw = k,
                              !.out = BindText(verify_address_from_public_key(a, k))]
    /\ UNCHANGED <<now, challenges, reqs, known, nCreates, consumed, base, evars>>

\* jsonwebtoken::encode with HS256, jwt.rs:44-51: the claims and their MAC
\* under the secret
encode(claims, secret) == [claims |-> claims, mac |-> secret]

\* JwtManager::generate_token at time t, jwt.rs:27-53
JwtManager_generate_token(secret, wallet_address, stake_address, t) ==
    encode(Claims(wallet_address, stake_address, t + TOKEN_LIFETIME, t), secret)

\* JwtManager::validate_token at time t, jwt.rs:56-64: decode with
\* Validation::default(), which checks the MAC and then rejects a token
\* whose exp is less than t - leeway
JwtManager_validate_token(secret, token, t) ==
    IF token.mac # secret THEN Err("Invalid token: InvalidSignature")
    ELSE IF token.claims.exp < t - LEEWAY THEN Err("Invalid token: ExpiredSignature")
    ELSE Ok(token.claims)

Secrets == {"secret-a", "secret-b"}
Stakes == {None, Some("stake_test1_K1")}
IssueTimes == {0, 1}
\* how long after the issue the token is validated
ValidateAfter ==
    {0, TOKEN_LIFETIME - 1, TOKEN_LIFETIME, TOKEN_LIFETIME + 1,
     TOKEN_LIFETIME + LEEWAY, TOKEN_LIFETIME + LEEWAY + 1}

\* validate_token(generate_token(w, st)): issued at t with the secret sg,
\* validated d seconds later with the secret ck
CallRoundTrip(w, st, t, d, sg, ck) ==
    /\ call = NoCall
    /\ LET res == JwtManager_validate_token(
                      ck, JwtManager_generate_token(sg, w, st, t), t + d)
           q == [NoCall EXCEPT !.fn = "validate_token", !.addr = w, !.stake = st,
                               !.issued = t, !.checked = t + d,
                               !.signer = sg, !.checker = ck]
       IN call' = IF res.ok THEN [q EXCEPT !.out = "Ok", !.claims = res.val]
                  ELSE [q EXCEPT !.out = res.val]
    /\ UNCHANGED <<now, challenges, reqs, known, nCreates, consumed, base, evars>>

\* auth.rs:242-260: the session of a verified request for the address a
\* with the stake address st, issued at time t
IssueSession(a, st, secret, t) ==
    LET subject == SessionSubject(normalize_address_format(a)) IN
    IF ~SliceOk(subject, Min(AddrLen(subject), LOG_SUBJECT)) THEN Err("panic")
    ELSE Ok(JwtManager_generate_token(secret, subject, st, t))

CallIssue(a, st, secret, t) ==
    /\ call = NoCall
    /\ LET res == IssueSession(a, st, secret, t)
           q == [NoCall EXCEPT !.fn = "issue", !.addr = a, !.stake = st,
                               !.issued = t, !.signer = secret]
       IN call' = IF res.ok THEN [q EXCEPT !.out = "Ok", !.claims = res.val.claims]
                  ELSE [q EXCEPT !.out = res.val]
    /\ UNCHANGED <<now, challenges, reqs, known, nCreates, consumed, base, evars>>

\* the elements a client may put in the four places of a COSE_Sign1
HeaderEls ==
    {BytesEl(PhLen(ph), TextBlob(ph)) : ph \in PureHeaders} \cup {NullEl, TextEl}
UnprotectedEls == {MapEl, NullEl, IntEl(0)}
PayloadEls ==
    {BytesEl(BodyLen(b), BodyBlob(b)) : b \in {EmptyBytes, OtherBytes}}
    \cup {NullEl, TextEl}
SignatureEls ==
    {BytesEl(64, SigBlob(sg)) : sg \in {CorruptSig, Sign("K1", Plain(OtherBytes))}}
    \cup {BytesEl(63, SigBlob(CorruptSig)), NullEl, TextEl}
\* the bytes extract_signature_from_cose_sign1 may be given: none, 64 bytes
\* that are or are not CBOR, arrays of three, four and five elements, other
\* CBOR items
ParseSigInputs ==
    {NoBytesSig, CborSig(CborScalar), CborSig(CborMap(<<>>)),
     Raw64(CorruptSig), Raw64(Sign("K1", Plain(OtherBytes))),
     Raw64Cbor(CorruptSig, CborScalar),
     Raw64Cbor(CorruptSig, CborArray(<<BytesEl(0, TextBlob("")), MapEl, NullEl,
                                       BytesEl(58, SigBlob(CorruptSig))>>))}
    \cup {CborSig(CborArray(<<h, u, p, sg>>)) :
            h \in HeaderEls, u \in UnprotectedEls, p \in PayloadEls, sg \in SignatureEls}
    \cup {CborSig(CborArray(<<h, u, sg>>)) :
            h \in HeaderEls, u \in UnprotectedEls, sg \in SignatureEls}
    \cup {CborSig(CborArray(<<h, u, p, sg, NullEl>>)) :
            h \in HeaderEls, u \in {MapEl}, p \in PayloadEls, sg \in SignatureEls}

\* the entries a client may put in a COSE_Key
KeyEntries ==
    {Entry(IntEl(1), IntEl(1)), Entry(TextEl, BytesEl(32, TextBlob("K2"))),
     Entry(IntEl(-2), BytesEl(32, TextBlob("K1"))),
     Entry(IntEl(-2), BytesEl(32, TextBlob("K2"))),
     Entry(IntEl(-2), BytesEl(31, TextBlob("K1"))),
     Entry(IntEl(-2), TextEl)}
\* the bytes extract_public_key_from_cose may be given: none, 32 bytes that
\* are or are not CBOR, maps of up to three entries, other CBOR items
ParseKeyInputs ==
    {NoBytesKey, CborKey(CborScalar), CborKey(CborArray(<<>>)), CborKey(CborMap(<<>>)),
     Raw32("K1"), Raw32("KX"), Raw32Cbor("KX", CborScalar),
     Raw32Cbor("KX", CborMap(<<Entry(IntEl(-2), BytesEl(28, TextBlob("K1")))>>))}
    \cup {CborKey(CborMap(<<e>>)) : e \in KeyEntries}
    \cup {CborKey(CborMap(<<e, f>>)) : e \in KeyEntries, f \in KeyEntries}
    \cup {CborKey(CborMap(<<e, f, g>>)) :
            e \in KeyEntries, f \in KeyEntries, g \in KeyEntries}

\* extract_signature_from_cose_sign1(b)
CallParseSig(b) ==
    /\ call = NoCall
    /\ LET res == extract_signature_from_cose_sign1(b) IN
       call' = IF res.ok
               THEN [NoCall EXCEPT !.fn = "extract_signature_from_cose_sign1",
                                   !.sig = HexOf(b), !.out = "Ok", !.s = res.val.sig,
                                   !.body = res.val.payload, !.ph = res.val.ph]
               ELSE [NoCall EXCEPT !.fn = "extract_signature_from_cose_sign1",
                                   !.sig = HexOf(b), !.out = res.val]
    /\ UNCHANGED <<now, challenges, reqs, known, nCreates, consumed, base, evars>>

\* extract_public_key_from_cose(b)
CallParseKey(b) ==
    /\ call = NoCall
    /\ LET res == extract_public_key_from_cose(b) IN
       call' = IF res.ok
               THEN [NoCall EXCEPT !.fn = "extract_public_key_from_cose",
                                   !.key = HexOf(b), !.out = "Ok", !.raw = res.val]
               ELSE [NoCall EXCEPT !.fn = "extract_public_key_from_cose",
                                   !.key = HexOf(b), !.out = res.val]
    /\ UNCHANGED <<now, challenges, reqs, known, nCreates, consumed, base, evars>>

\* one call, of one function, on inputs from the sets above
ApplyVerifier ==
    /\ call = NoCall
    /\ \E a \in PureAddrs, m \in PureMsgs, s \in PureEnvelopes, k \in PureKeys :
          CallVerifier(a, m, s, k)

ApplyShapes ==
    /\ call = NoCall
    /\ \E a \in PureAddrs, m \in PureMsgs, sg \in PureRawSigs, ph \in PureHeaders,
          k \in PureKeys : CallShapes(a, m, sg, ph, k)

ApplyBinder ==
    /\ call = NoCall
    /\ \E a \in Addresses, k \in RawKeys : CallBinder(a, k)

ApplyParseSig ==
    /\ call = NoCall
    /\ \E b \in ParseSigInputs : CallParseSig(b)

ApplyParseKey ==
    /\ call = NoCall
    /\ \E b \in ParseKeyInputs : CallParseKey(b)

\* ------------------------------------------------------------------------
\* auth_middleware, auth/middleware.rs:13-52, before the protected routes of
\* api/mod.rs:39-46
\* ------------------------------------------------------------------------
\* the routes behind the middleware and their handlers
ProtectedRoutes == {"/api/user/transactions", "/api/user/summary"}
HandlerOf(route) ==
    IF route = "/api/user/transactions" THEN "get_transactions" ELSE "get_summary"

\* a string that is no token at all
GarbageToken == encode(NoClaims, "malformed")

\* the Authorization header: absent, bytes that are no visible ASCII, or a
\* text made of what precedes the token and the token
NoHeader == [present |-> FALSE, text |-> FALSE, scheme |-> "", rest |-> GarbageToken]
Authorization(text, scheme, rest) ==
    [present |-> TRUE, text |-> text, scheme |-> scheme, rest |-> rest]
Schemes == {"Bearer ", "bearer ", "Basic ", "Bearer", ""}

\* h.strip_prefix("Bearer "), middleware.rs:33
strip_prefix(h) == IF h.scheme = "Bearer " THEN Ok(h.rest) ELSE Err("None")

\* what auth_middleware answers at time t, and the handler it runs with
\* the claims it put in the request's extensions
auth_middleware(secret, headers, route, t) ==
    LET refuse(why) == [status |-> why, handler |-> "none", claims |-> NoClaims]
        token == IF headers.present /\ headers.text
                 THEN strip_prefix(headers) ELSE Err("None")
        claims == JwtManager_validate_token(secret, token.val, t)
    IN IF ~token.ok THEN refuse("401 Missing authorization token")
       ELSE IF ~claims.ok THEN refuse("401 Invalid token")
       ELSE [status |-> "next", handler |-> HandlerOf(route), claims |-> claims.val]

\* a protected route is asked for, d seconds after the token was issued at
\* t with the secret sg, on a server whose secret is ck
CallMiddleware(route, present, text, scheme, garbage, w, t, d, sg, ck) ==
    LET tok == IF garbage THEN GarbageToken
               ELSE JwtManager_generate_token(sg, w, None, t)
        headers == IF present THEN Authorization(text, scheme, tok) ELSE NoHeader
        res == auth_middleware(ck, headers, route, t + d)
    IN /\ call' = [NoCall EXCEPT !.fn = "auth_middleware", !.route = route,
                                 !.header = IF ~present THEN "missing"
                                            ELSE IF ~text THEN "not text"
                                            ELSE scheme,
                                 !.addr = w, !.issued = t, !.checked = t + d,
                                 !.signer = IF garbage THEN "malformed" ELSE sg,
                                 !.checker = ck,
                                 !.out = res.status, !.handler = res.handler,
                                 !.claims = res.claims]
       /\ UNCHANGED <<now, challenges, reqs, known, nCreates, consumed, base, evars>>

ApplyMiddleware ==
    /\ call = NoCall
    /\ \E route \in ProtectedRoutes, present \in BOOLEAN, text \in BOOLEAN,
          scheme \in Schemes, garbage \in BOOLEAN, w \in PureAddrs,
          t \in IssueTimes, d \in ValidateAfter, sg \in Secrets, ck \in Secrets :
            CallMiddleware(route, present, text, scheme, garbage, w, t, d, sg, ck)

ApplyRoundTrip ==
    /\ call = NoCall
    /\ \E w \in PureAddrs, st \in Stakes, t \in IssueTimes, d \in ValidateAfter,
          sg \in Secrets, ck \in Secrets : CallRoundTrip(w, st, t, d, sg, ck)

ApplyIssue ==
    /\ call = NoCall
    /\ \E a \in Addresses \ {EmptyAddr}, st \in Stakes, secret \in Secrets,
          t \in IssueTimes : CallIssue(a, st, secret, t)

NextPure ==
    \/ ApplyIssue
    \/ ApplyRoundTrip
    \/ ApplyVerifier
    \/ ApplyShapes
    \/ ApplyBinder
    \/ ApplyParseSig
    \/ ApplyParseKey
    \/ ApplyMiddleware

SpecPure == Init /\ [][NextPure]_vars

\* ------------------------------------------------------------------------
\* Properties
\* ------------------------------------------------------------------------
VerifyDone(r) == reqs[r].op = "verify" /\ reqs[r].pc = "done"
CreateDone(r) == reqs[r].op = "create" /\ reqs[r].pc = "done"
\* the request got a session token
Tokened(r) == VerifyDone(r) /\ reqs[r].result = "200"
\* the lookup of the request found a pending challenge
Found(r) == reqs[r].op = "verify" /\ reqs[r].chal # NoChallenge

\* the key and the signature a request carries, once extracted
KeyOf(q) == extract_public_key_from_cose(hex_decode(q.key).bytes)
EnvOf(q) == extract_signature_from_cose_sign1(hex_decode(q.sig).bytes)
\* the supplied key's hash is the payment key credential of the address
Binds(q) ==
    /\ hex_decode(q.key).ok /\ KeyOf(q).ok
    /\ verify_address_from_public_key(q.addr, KeyOf(q).val).ok
\* the challenge message the signature of the request was made over
SignedMessage(q) == Message(EnvOf(q).val.sig.over.body.nonce,
                            EnvOf(q).val.sig.over.body.time)
\* the signature is the holder of key k signing the raw bytes of message m,
\* sent as 64 raw bytes with the raw key
HappyInput(q, k, m) ==
    /\ q.sig = HexOf(Raw64(Sign(k, Plain(MsgBytes(m)))))
    /\ q.key = HexOf(Raw32(k))
    /\ AddrDecode(q.addr).shape \in {"base", "enterprise", "pointer"}
    /\ AddrDecode(q.addr).cred = "key"
    /\ AddrDecode(q.addr).hash = KeyHash(k)

\* C1: a session token is issued for an address only if the supplied key's
\* hash is the payment key credential of that address; a request whose
\* address binding fails gets no token, however valid its signature.
C1_TokenOnlyForBoundKey ==
    \A r \in SeqTasks : Tokened(r) => Binds(reqs[r])

\* C2: a signature made over the message of one challenge is never
\* accepted against a pending challenge with a different message, whatever
\* the envelope that carries it.
C2_NoReplayAcrossChallenges ==
    \A r \in SeqTasks :
        (Tokened(r) /\ EnvOf(reqs[r]).val.sig.signer \in Keys
           /\ EnvOf(reqs[r]).val.sig.over.body.pform \in {"msg", "hexmsg"})
        => SignedMessage(reqs[r]) = reqs[r].chal.message

\* C3: of the requests served side by side for one challenge, all with a
\* valid signature and key, at most one gets a session token.
C3_ChallengeConsumedOnce ==
    \A r, t \in ConcTasks :
        (r # t /\ Tokened(r) /\ Tokened(t)) => reqs[r].chal.id # reqs[t].chal.id

\* C4: in a sequential run, after a successful verification for an address
\* every request for it that passes the field validation is answered
\* "401 no challenge" until a new challenge is created for the address.
C4_ConsumedStaysConsumed ==
    [][\A r \in SeqTasks :
         (/\ reqs[r].op = "idle" /\ reqs'[r].op = "verify"
          /\ reqs'[r].addr \in consumed
          /\ reqs'[r].sig.hex # "empty")
         => reqs'[r].result = "401 no challenge"]_vars

\* C4, its case: a valid signature and key are sent again for a consumed
\* challenge and the answer is "401 no challenge"
C4_Witness ==
    \E r \in SeqTasks, m \in known :
        /\ VerifyDone(r) /\ reqs[r].addr \in consumed
        /\ HappyInput(reqs[r], "K1", m)
        /\ reqs[r].result = "401 no challenge"

C6_FailureKeepsChallenge ==
    [][\A r \in SeqTasks :
         /\ (/\ reqs'[r].op = "verify" /\ reqs'[r] # reqs[r]
             /\ reqs'[r].result \notin {"200", "500 token"})
            => challenges' = challenges
         /\ reqs'[r].result = "401 invalid signature"
            => /\ reqs'[r].addr \in DOMAIN challenges'
               /\ challenges'[reqs'[r].addr] = reqs'[r].chal]_vars

\* C6, its case: a request whose key is not the address's and whose
\* signature is invalid has failed, and the challenge is still pending
C6_Witness ==
    \E r \in SeqTasks :
        /\ VerifyDone(r) /\ reqs[r].result = "401 invalid signature"
        /\ ~Binds(reqs[r])
        /\ reqs[r].addr \in DOMAIN challenges
        /\ challenges[reqs[r].addr] = reqs[r].chal

\* C7: a request for an address without a pending challenge is answered
\* "401 no challenge" and gets no token, for every signature and key.
C7_NoChallengeIsUnauthorized ==
    \A r \in SeqTasks :
        (/\ VerifyDone(r) /\ reqs[r].addr # EmptyAddr
         /\ ~Found(r) /\ reqs[r].addr \notin DOMAIN challenges)
        => reqs[r].result = "401 no challenge" /\ reqs[r].token = NoToken

\* C8: a request that found a pending challenge is answered "401 expired",
\* without a token, exactly when the challenge is more than 300 seconds old
\* at the check, whatever signature and key it carries.
C8_ExpiredIffOlderThanTtl ==
    \A r \in SeqTasks :
        (Found(r) /\ reqs[r].pc \in {"remove", "done"})
        => /\ reqs[r].result = "401 expired"
              <=> reqs[r].at - reqs[r].chal.timestamp > TTL
           /\ reqs[r].result = "401 expired" => reqs[r].token = NoToken

\* C8, its cases: a correct signature rejected at 301 seconds
C8_Witness ==
    \E r \in SeqTasks :
        /\ VerifyDone(r) /\ reqs[r].result = "401 expired"
        /\ HappyInput(reqs[r], "K1", reqs[r].chal.message)
        /\ reqs[r].at - reqs[r].chal.timestamp = TTL + 1

\* C9: when the session issuer fails after all checks passed, the challenge
\* is still pending: a challenge is never removed without a token issued.
C9_IssuerFailureKeepsChallenge ==
    \A r \in SeqTasks :
        (VerifyDone(r) /\ reqs[r].result = "500 token")
        => /\ reqs[r].addr \in DOMAIN challenges
           /\ challenges[reqs[r].addr] = reqs[r].chal

\* C10: create_challenge answers 400 for the empty address and, for every
\* other address, returns the message and nonce of the challenge that is
\* then pending for the address.
C10_CreateStoresForEveryAddress ==
    \A r \in SeqTasks :
        CreateDone(r) =>
            IF reqs[r].addr = EmptyAddr THEN reqs[r].result = "400"
            ELSE /\ reqs[r].result = "200"
                 /\ reqs[r].addr \in DOMAIN challenges
                 /\ challenges[reqs[r].addr].nonce = reqs[r].nonce
                 /\ challenges[reqs[r].addr].message = reqs[r].msg

\* the byte strings a signature may have been made over, as the verifier's
\* contract lists them
Candidates(message, payload, ph) ==
    (IF ph # "" \/ payload # EmptyBytes THEN {SigStructure(ph, payload)} ELSE {})
    \cup {Plain(MsgBytes(message))}
    \cup (IF payload = MsgBytes(message) THEN {Plain(payload)} ELSE {})
    \cup {Plain(HexText(MsgBytes(message)))}
    \cup (IF HexDecode(payload).ok /\ HexDecode(payload).bytes = MsgBytes(message)
          THEN {Plain(HexDecode(payload).bytes)} ELSE {})
\* the signature validates under the key over one of the candidates
Validates(key, sig, message, payload, ph) ==
    \E c \in Candidates(message, payload, ph) : Ed25519Verify(key, c, sig)

\* one of the two envelopes of the request cannot be decoded
MalformedInput(q) ==
    \/ ~hex_decode(q.sig).ok \/ ~hex_decode(q.key).ok
    \/ ~EnvOf(q).ok \/ ~KeyOf(q).ok
\* the request passes the field validation and its address has a pending
\* challenge that is not expired when it is checked
Pending(q) ==
    /\ q.addr # EmptyAddr /\ q.sig.hex # "empty"
    /\ q.addr \in DOMAIN base
    /\ q.at - base[q.addr].timestamp <= TTL

\* C11: a request for a pending challenge with a malformed envelope
\* (undecodable hex, bytes that are no complete CBOR item, an array of the
\* wrong length, a signature or key of the wrong length) is answered
\* "500 verification": not with a token, not as an invalid signature, not
\* by a crash of the handler; and the challenge is still pending.
C11_MalformedInputIs500 ==
    \A r \in SeqTasks :
        (VerifyDone(r) /\ Pending(reqs[r]) /\ MalformedInput(reqs[r]))
        => /\ reqs[r].result = "500 verification"
           /\ reqs[r].token = NoToken
           /\ reqs[r].addr \in DOMAIN challenges
           /\ challenges[reqs[r].addr] = base[reqs[r].addr]

\* A request executed in one piece on a store: the outcomes it may have,
\* each the store it leaves and the response.  A create request keeps the
\* nonce, timestamp and message it drew; a verify request reads the clock
\* it read.
Outcome(store, result, token) == [store |-> store, result |-> result, token |-> token]

AtomicCreate(q, store) ==
    IF q.addr = EmptyAddr THEN {Outcome(store, "400", NoToken)}
    ELSE IF ~SliceOk(q.addr, LOG_PREFIX) THEN {Outcome(store, "panic", NoToken)}
    ELSE {Outcome(Retain(Insert(store, q.addr,
                                ChallengeData(q.nonce, q.msg, q.ts, q.id)),
                         q.ts - TTL),
                  "200", NoToken)}

AtomicVerify(q, store) ==
    IF q.addr = EmptyAddr \/ q.sig.hex = "empty" THEN {Outcome(store, "400", NoToken)}
    ELSE IF ~SliceOk(q.addr, Min(AddrLen(q.addr), LOG_PREFIX))
    THEN {Outcome(store, "panic", NoToken)}
    ELSE IF q.addr \notin DOMAIN store THEN {Outcome(store, "401 no challenge", NoToken)}
    ELSE IF ~SliceOk(q.addr, LOG_PREFIX) THEN {Outcome(store, "panic", NoToken)}
    ELSE IF q.at - store[q.addr].timestamp > TTL
    THEN {Outcome(store, "401 expired", NoToken)}
    ELSE LET res == verify_cardano_signature(q.addr, store[q.addr].message, q.sig, q.key)
             b32 == convert_to_bech32(q.addr)
             subject == IF b32.ok THEN b32.val ELSE q.addr
             rest == [x \in DOMAIN store \ {q.addr} |-> store[x]]
         IN IF res = "panic" THEN {Outcome(store, "panic", NoToken)}
            ELSE IF res = "err" THEN {Outcome(store, "500 verification", NoToken)}
            ELSE IF res = "false"
            THEN {Outcome(store,
                          IF SliceOk(q.addr, Min(AddrLen(q.addr), LOG_DEBUG))
                          THEN "401 invalid signature" ELSE "panic", NoToken)}
            ELSE IF ~SliceOk(subject, Min(AddrLen(subject), LOG_SUBJECT))
            THEN {Outcome(rest, "panic", NoToken)}
            ELSE {Outcome(rest, "200", [sub |-> subject]),
                  Outcome(rest, "500 token", NoToken)}

Atomic(q, store) ==
    IF q.op = "create" THEN AtomicCreate(q, store) ELSE AtomicVerify(q, store)

\* the responses of r and t and the store are those of r executed in one
\* piece on `base` and then t executed in one piece
SerialOrder(r, t) ==
    \E o1 \in Atomic(reqs[r], base) :
        /\ o1.result = reqs[r].result /\ o1.token = reqs[r].token
        /\ \E o2 \in Atomic(reqs[t], o1.store) :
              /\ o2.result = reqs[t].result /\ o2.token = reqs[t].token
              /\ o2.store = challenges

\* C12: two requests on the same address served side by side are
\* serializable: once both are done, their responses and the store are
\* those of the two requests executed one after the other, each in one
\* piece, in one of the two orders.
C12_Serializable ==
    \A r, t \in ConcTasks :
        (r # t /\ reqs[r].pc = "done" /\ reqs[t].pc = "done")
        => SerialOrder(r, t) \/ SerialOrder(t, r)

\* the request was abandoned by its client
Abandoned(r) == VerifyDone(r) /\ reqs[r].result = "abandoned"

\* C13: a verify request abandoned at a suspension point (the wait for the
\* store lock before the lookup or before the remove) leaves the store as
\* it was when the request began; the challenge it read, if any, is still
\* pending, so no abandoned request leaves a challenge removed without a
\* token.
C13_AbandonLeavesStore ==
    \A r \in SeqTasks :
        Abandoned(r)
        => /\ challenges = base
           /\ reqs[r].token = NoToken
           /\ Found(r) => /\ reqs[r].addr \in DOMAIN challenges
                          /\ challenges[reqs[r].addr] = reqs[r].chal

\* C13, its case: a request whose signature was verified is abandoned
\* while it waits for the lock of the remove, and its challenge is pending
C13_Witness ==
    \E r \in SeqTasks :
        /\ Abandoned(r) /\ Found(r)
        /\ HappyInput(reqs[r], "K1", reqs[r].chal.message)
        /\ reqs[r].addr \in DOMAIN challenges
        /\ challenges[reqs[r].addr] = reqs[r].chal

\* C14: the store holds one challenge per address, the last one written:
\* when a create request is done, the entry of its address is exactly its
\* nonce, message and timestamp, whatever the address had before; a verify
\* request reads exactly the entry the address has; and a raw signature of
\* the address's key passes the signature check exactly when it is over
\* the message of that entry.
C14_LastWriteWins ==
    \A r \in SeqTasks :
        /\ (CreateDone(r) /\ reqs[r].result = "200")
           => /\ reqs[r].addr \in DOMAIN challenges
              /\ challenges[reqs[r].addr] =
                    ChallengeData(reqs[r].nonce, reqs[r].msg, reqs[r].ts, reqs[r].id)
        /\ Found(r) => /\ reqs[r].addr \in DOMAIN base
                       /\ reqs[r].chal = base[reqs[r].addr]
        /\ \A m \in known :
              (/\ VerifyDone(r) /\ Found(r) /\ HappyInput(reqs[r], "K1", m)
               /\ reqs[r].result \notin {"401 expired", "abandoned"})
              => (reqs[r].result \in {"200", "500 token"}
                    <=> m = base[reqs[r].addr].message)

\* C14, its case: a create request is done for an address that had a
\* pending challenge, and the entry is now the new one
C14_Witness ==
    \E r \in SeqTasks :
        /\ CreateDone(r) /\ reqs[r].result = "200"
        /\ reqs[r].addr \in DOMAIN base
        /\ base[reqs[r].addr].nonce # reqs[r].nonce
        /\ base[reqs[r].addr].message # reqs[r].msg
        /\ challenges[reqs[r].addr].nonce = reqs[r].nonce
        /\ challenges[reqs[r].addr].message = reqs[r].msg
        /\ challenges[reqs[r].addr].timestamp = reqs[r].ts

C16_EmptyFieldsAre400 ==
    \A r \in SeqTasks :
        (VerifyDone(r) /\ (reqs[r].addr = EmptyAddr \/ reqs[r].sig.hex = "empty"))
        => /\ reqs[r].result = "400"
           /\ reqs[r].chal = NoChallenge
           /\ reqs[r].token = NoToken
           /\ challenges = base

\* C16, its case: an empty signature for an address with a pending challenge
C16_Witness ==
    \E r \in SeqTasks :
        /\ VerifyDone(r) /\ reqs[r].sig.hex = "empty"
        /\ reqs[r].addr \in DOMAIN challenges
        /\ reqs[r].result = "400"
        /\ challenges = base

\* the answers the order of the steps allows a verify request: validation,
\* lookup, expiry, envelope decoding, signature check, session issuance
ExpectedResults(q) ==
    IF q.addr = EmptyAddr \/ q.sig.hex = "empty" THEN {"400"}
    ELSE IF q.addr \notin DOMAIN base THEN {"401 no challenge"}
    ELSE IF q.at - base[q.addr].timestamp > TTL THEN {"401 expired"}
    ELSE IF MalformedInput(q) THEN {"500 verification"}
    ELSE IF ~IsCurvePoint(KeyOf(q).val) THEN {"500 verification"}
    ELSE IF ~Validates(KeyOf(q).val, EnvOf(q).val.sig, base[q.addr].message,
                       EnvOf(q).val.payload, EnvOf(q).val.ph)
    THEN {"401 invalid signature"}
    ELSE {"200", "500 token"}

\* C17: the answer to a verify request is that of the first failing step in
\* the order validation (400), lookup (401 no challenge), expiry (401
\* expired), envelope decoding (500), signature check (401 invalid
\* signature), session issuance (500), and 200 when no step fails.
C17_FirstFailingStepDecides ==
    \A r \in SeqTasks :
        VerifyDone(r) => reqs[r].result \in ExpectedResults(reqs[r])

\* C18: for every message, key and 64-byte signature the verifier gives the
\* same result for the raw 64-byte envelope and for the 4-element envelope
\* with an empty or a null payload that carries the same 64 bytes, whatever
\* the protected header of the 4-element envelope is.
C18_ShapesAgree ==
    call.fn = "shapes" => call.out = call.outSign1 /\ call.out = call.outNull

\* C18, amended: the three envelopes get the same result when the protected
\* header of the 4-element envelope is empty.
C18_ShapesAgreeEmptyHeader ==
    (call.fn = "shapes" /\ call.ph = "")
        => call.out = call.outSign1 /\ call.out = call.outNull

\* C18, its case: a signature over the message bytes accepted in all three
\* envelopes, the structured ones with an empty protected header
C18_Witness ==
    /\ call.fn = "shapes" /\ call.ph = ""
    /\ call.s = Sign("K1", Plain(MsgBytes(call.msg)))
    /\ call.out = "true" /\ call.outSign1 = "true" /\ call.outNull = "true"

\* the inputs of a call decode and the signature validates under the key over
\* one of the candidates
CallValidates ==
    /\ ~MalformedInput(call)
    /\ Validates(KeyOf(call).val, EnvOf(call).val.sig, call.msg,
                 EnvOf(call).val.payload, EnvOf(call).val.ph)

\* C19: verify_cardano_signature returns true if and only if the signature
\* validates under the supplied key over one of the five candidate byte
\* strings, and returns false only when it validates over none of them.
C19_TrueIffSomeCandidateValidates ==
    call.fn = "verify_cardano_signature"
        => /\ call.out = "true" <=> CallValidates
           /\ call.out = "false" => ~MalformedInput(call) /\ ~CallValidates

\* the address is a base, enterprise or pointer address whose payment
\* credential is the hash of the key
KeyHashMatches(address, key) ==
    /\ AddrDecode(address).shape \in {"base", "enterprise", "pointer"}
    /\ AddrDecode(address).cred = "key"
    /\ AddrDecode(address).hash = KeyHash(key)

\* C20: verify_address_from_public_key returns success only for an address
\* that decodes to a base, enterprise or pointer address whose payment
\* credential is a key hash equal to the hash of the supplied key; a script
\* credential, another shape, an undecodable address and a hash mismatch
\* each return an error, and it never returns Ok(false).
C20_BinderSucceedsOnlyOnMatchingKeyHash ==
    call.fn = "verify_address_from_public_key"
        => /\ call.out = "Ok(true)" => KeyHashMatches(call.addr, call.raw)
           /\ ~KeyHashMatches(call.addr, call.raw)
                  => call.out \notin {"Ok(true)", "Ok(false)", "none"}
           /\ call.out # "Ok(false)"

\* C20, its case: a base address with a key credential checked against
\* another key is an error
C20_Witness ==
    /\ call.fn = "verify_address_from_public_key"
    /\ call.addr = AddrK2Base /\ call.raw = "K1"
    /\ call.out = "Public key does not match the address"

\* the bytes given to a parser in a call
ParsedSig == call.sig.bytes
ParsedKey == call.key.bytes
\* an element that is a byte string or null, and the bytes it stands for
BytesOrNull(el) == el.t \in {"bytes", "null"}

\* the input decodes to a 4-element array of a header and a payload that
\* are byte strings or null and a signature of 64 bytes
WellFormedSign1(b) ==
    /\ b.cbor.type = "array" /\ Len(b.cbor.items) = 4
    /\ BytesOrNull(b.cbor.items[1]) /\ BytesOrNull(b.cbor.items[3])
    /\ b.cbor.items[4].t = "bytes" /\ b.cbor.items[4].len = 64

\* C21: on an input that is not 64 bytes long the signature parser succeeds
\* exactly when the input decodes to a 4-element array whose protected
\* header and payload are byte strings or null and whose signature is a
\* byte string of 64 bytes, whatever the second element is; it returns the
\* three, null as the empty byte string; every other input is an error.
C21_ParseSucceedsIffWellFormed ==
    (call.fn = "extract_signature_from_cose_sign1" /\ ~ParsedSig.len64)
        => /\ call.out = "Ok" <=> WellFormedSign1(ParsedSig)
           /\ call.out = "Ok" =>
                 /\ call.s = ParsedSig.cbor.items[4].v.g
                 /\ call.ph = (IF ParsedSig.cbor.items[1].t = "null" THEN ""
                               ELSE ParsedSig.cbor.items[1].v.s)
                 /\ call.body = (IF ParsedSig.cbor.items[3].t = "null" THEN EmptyBytes
                                 ELSE ParsedSig.cbor.items[3].v.b)

\* C22: on an input of 64 bytes the signature parser returns the 64 bytes as
\* the signature, with an empty payload and an empty protected header,
\* whether or not the bytes are a CBOR item.
C22_Raw64IsTheSignature ==
    (call.fn = "extract_signature_from_cose_sign1" /\ ParsedSig.len64)
        => /\ call.out = "Ok" /\ call.s = ParsedSig.raw
           /\ call.body = EmptyBytes /\ call.ph = ""

\* C22, its case: 64 bytes that are the encoding of a 4-element array
C22_Witness ==
    /\ call.fn = "extract_signature_from_cose_sign1"
    /\ ParsedSig.len64 /\ ParsedSig.cbor.type = "array"
    /\ call.out = "Ok"

\* the entries of a map whose label is -2 and whose value is 32 bytes
GoodEntries(b) ==
    {i \in 1..Len(b.cbor.items) :
        /\ IsLabelX(b.cbor.items[i].label)
        /\ b.cbor.items[i].el.t = "bytes" /\ b.cbor.items[i].el.len = 32}
\* the entries of a map whose label is -2
XEntries(b) == {i \in 1..Len(b.cbor.items) : IsLabelX(b.cbor.items[i].label)}

\* C23: the key parser returns an input of 32 bytes as it is; on another
\* input it succeeds exactly when the input decodes to a map that has an
\* entry -2 whose value is a byte string of 32 bytes, and returns that
\* value.
C23_KeyParseSucceedsIffHasGoodEntry ==
    call.fn = "extract_public_key_from_cose"
        => IF ParsedKey.len32 THEN call.out = "Ok" /\ call.raw = ParsedKey.raw
           ELSE /\ call.out = "Ok" <=>
                      (ParsedKey.cbor.type = "map" /\ GoodEntries(ParsedKey) # {})
                /\ call.out = "Ok" =>
                      \E i \in GoodEntries(ParsedKey) :
                          call.raw = ParsedKey.cbor.items[i].el.v.s

\* C23, amended: on an input that is not 32 bytes long the key parser
\* succeeds exactly when the input decodes to a map whose first entry -2 has
\* a byte string of 32 bytes as its value, and returns that value.
C23_KeyParseFirstEntryDecides ==
    call.fn = "extract_public_key_from_cose"
        => IF ParsedKey.len32 THEN call.out = "Ok" /\ call.raw = ParsedKey.raw
           ELSE LET first == CHOOSE i \in XEntries(ParsedKey) :
                                \A j \in XEntries(ParsedKey) : i <= j
                IN /\ call.out = "Ok" <=>
                         /\ ParsedKey.cbor.type = "map"
                         /\ XEntries(ParsedKey) # {}
                         /\ first \in GoodEntries(ParsedKey)
                   /\ call.out = "Ok" => call.raw = ParsedKey.cbor.items[first].el.v.s

\* C23, its case: a map with two entries -2 of 32 bytes, the first returned
C23_Witness ==
    /\ call.fn = "extract_public_key_from_cose"
    /\ ParsedKey = CborKey(CborMap(<<Entry(IntEl(1), IntEl(1)),
                                     Entry(IntEl(-2), BytesEl(32, TextBlob("K1"))),
                                     Entry(IntEl(-2), BytesEl(32, TextBlob("K2")))>>))
    /\ call.out = "Ok" /\ call.raw = "K1"

\* C24: a token generated for a wallet address and an optional stake
\* address validates, with the same secret and at any time up to its exp,
\* to claims with that wallet address, that stake address and exp = iat +
\* 24 hours; validation fails once the time is past exp, and for a token
\* signed with another secret.
C24_ClaimsRoundTrip ==
    call.fn = "validate_token"
        => /\ (call.checker = call.signer
                 /\ call.checked <= call.issued + TOKEN_LIFETIME)
                => /\ call.out = "Ok"
                   /\ call.claims = Claims(call.addr, call.stake,
                                           call.issued + TOKEN_LIFETIME, call.issued)
           /\ call.checked > call.issued + TOKEN_LIFETIME => call.out # "Ok"
           /\ call.checker # call.signer => call.out # "Ok"

\* task r completes, in this step, a verification that read the challenge d
VerifiesNow(r, d) ==
    /\ reqs[r].op = "verify" /\ reqs[r].pc = "remove" /\ reqs'[r].pc = "done"
    /\ reqs'[r].result # "abandoned"
    /\ reqs[r].chal = d
\* task r stores, in this step, the challenge it created
StoresNow(r) ==
    reqs[r].op = "create" /\ reqs[r].pc = "store" /\ reqs'[r].pc = "done"

\* C25: a pending challenge leaves the store only through a successful
\* verification of that same challenge, the store of a newer challenge for
\* its address, or the eviction of a challenge older than the time to live;
\* so a challenge stored while a verification of an older one is in flight
\* is still pending when that verification completes.
C25_RemovesOnlyWhatItVerified ==
    [][\A a \in DOMAIN challenges :
          (a \notin DOMAIN challenges' \/ challenges'[a] # challenges[a])
              => \/ \E r \in ConcTasks : VerifiesNow(r, challenges[a])
                 \/ \E r \in ConcTasks : StoresNow(r) /\ reqs[r].addr = a
                 \/ \E r \in ConcTasks :
                        StoresNow(r) /\ reqs[r].ts - challenges[a].timestamp > TTL]_vars

\* C26: a create_challenge executed at time t leaves in the store every
\* challenge of another address whose age t - issued_at is at most the time
\* to live, the age of exactly 300 seconds included: eviction removes no
\* challenge the expiry check of the verification would accept.
C26_EvictionKeepsLiveChallenges ==
    [][\A r \in SeqTasks :
          StoresNow(r) =>
              \A a \in DOMAIN challenges \ {reqs[r].addr} :
                  ~Expired(reqs[r].ts, challenges[a].timestamp)
                      => a \in DOMAIN challenges' /\ challenges'[a] = challenges[a]]_vars

\* C27: immediately after a create_challenge executed at time t the store
\* has no entry whose age t - issued_at exceeds the time to live, and it has
\* the challenge just created.
C27_StoreFreshAfterCreate ==
    [][\A r \in SeqTasks :
          StoresNow(r) =>
              /\ \A a \in DOMAIN challenges' :
                     reqs[r].ts - challenges'[a].timestamp <= TTL
              /\ reqs[r].addr \in DOMAIN challenges'
              /\ challenges'[reqs[r].addr] =
                     ChallengeData(reqs[r].nonce, reqs[r].msg, reqs[r].ts, reqs[r].id)]_vars

\* C27, its case: a second challenge was created more than the time to live
\* after the first one, and the store holds the second one alone
C27_Witness ==
    \E r \in SeqTasks :
        /\ CreateDone(r) /\ reqs[r].result = "200"
        /\ reqs[r].id = 2 /\ reqs[r].ts > TTL
        /\ \E m \in known : m.time = 0
        /\ DOMAIN challenges = {reqs[r].addr}

\* C28: the message of every stored challenge embeds the nonce stored in
\* the same entry and the instant stored as its timestamp, also when the
\* clock advances while create_challenge runs.
C28_MessageEmbedsNonceAndTimestamp ==
    \A a \in DOMAIN challenges :
        challenges[a].message = Message(challenges[a].nonce, challenges[a].timestamp)

\* C29: attempts 3 and 5 are subsumed by attempt 2: on every message, key
\* and envelope the verifier with five attempts gives the result of the
\* verifier that makes the attempts 1, 2 and 4 only.
C29_ThreeCandidatesSuffice ==
    call.fn = "verify_cardano_signature" => call.out = call.outThree

\* C29, its case: the payload is the message and the signature is over it,
\* so attempt 3 applies, and both verifiers accept
C29_Witness ==
    /\ call.fn = "verify_cardano_signature"
    /\ ~MalformedInput(call)
    /\ EnvOf(call).val.payload = MsgBytes(call.msg)
    /\ Method3(KeyOf(call).val, EnvOf(call).val.sig, call.msg, EnvOf(call).val.payload)
    /\ call.out = "true" /\ call.outThree = "true"

Responses ==
    {"200", "400", "401 no challenge", "401 expired", "401 invalid signature",
     "500 verification", "500 token"}

\* every request that began comes to its end
Terminates == \A r \in ConcTasks : (reqs[r].op # "idle") ~> (reqs[r].pc = "done")
\* a request at its end has an answer for the client
Answered == \A r \in ConcTasks : reqs[r].pc = "done" => reqs[r].result \in Responses
\* the task that holds the store lock is at no suspension point: it can
\* take its next step whatever the other tasks do
HolderRuns == \A r \in ConcTasks : challenges_lock = r => ENABLED Runs(r)

\* C31: under any interleaving of concurrent requests and with a fair lock,
\* every create_challenge and verify_signature request terminates with a
\* response, and no request holds the store lock while it waits for a lock
\* or at any other suspension point.
C31_EveryRequestIsAnswered == Terminates /\ []Answered /\ []HolderRuns
C31_Witness ==
    \E r \in ConcTasks :
        /\ challenges_lock = r
        /\ reqs[r].pc = "remove"
        /\ \E o \in ConcTasks \ {r} : reqs[o].pc \in {"store", "lookup", "remove"}

\* ------------------------------------------------------------------------
\* The protected routes
\* ------------------------------------------------------------------------
\* the request carries "Bearer <token>" with a token of this server that
\* has not expired
BearsLiveToken ==
    /\ call.header = "Bearer "
    /\ call.signer = call.checker
    /\ call.checked <= call.issued + TOKEN_LIFETIME

\* C32: get_transactions and get_summary run only for requests whose
\* Authorization header is "Bearer <token>" with a valid token, and see that
\* token's claims; a request with no header, with a header without the
\* "Bearer " prefix, or with an invalid or expired token gets 401 and no
\* handler runs.
C32_HandlersRunOnlyWithLiveToken ==
    call.fn = "auth_middleware"
        => IF BearsLiveToken
           THEN /\ call.handler = HandlerOf(call.route)
                /\ call.claims = Claims(call.addr, None,
                                        call.issued + TOKEN_LIFETIME, call.issued)
           ELSE /\ call.handler = "none"
                /\ call.out \in {"401 Missing authorization token", "401 Invalid token"}

\* ------------------------------------------------------------------------
\* The event buffer
\* ------------------------------------------------------------------------
\* the last k elements of a sequence
LastN(seq, k) == SubSeq(seq, Len(seq) - k + 1, Len(seq))
\* how many events of a kind a sequence holds
CountOf(seq, kind) == Cardinality({i \in 1..Len(seq) : seq[i].type = kind})

\* C33: after any sequence of add_event (with buffer_size = BUFFER_SIZE) and
\* clear_buffer calls the buffer is no longer than BUFFER_SIZE and holds, in
\* arrival order, the most recent min(n, BUFFER_SIZE) of the n events added
\* since the last clear.
C33_BufferIsBoundedFifo ==
    /\ Len(state.buffer) <= BUFFER_SIZE
    /\ state.buffer = LastN(hist.since, Min(Len(hist.since), BUFFER_SIZE))
C33_Witness ==
    /\ Len(hist.since) > BUFFER_SIZE
    /\ Len(state.buffer) = BUFFER_SIZE
    /\ Head(state.buffer) = hist.since[Len(hist.since) - BUFFER_SIZE + 1]
    /\ Head(state.buffer) # Head(hist.since)

\* the counters are those of the calls made
CountersMatch ==
    /\ state.total_events = hist.adds
    /\ state.blocks_count = CountOf(hist.since, "Block")
    /\ state.transactions_count = CountOf(hist.since, "Transaction")
    /\ state.inputs_count = CountOf(hist.since, "TxInput")
    /\ state.outputs_count = CountOf(hist.since, "TxOutput")
\* total_events never decreases, and a clear_buffer step empties the buffer
\* and the four counters and leaves the rest
ClearKeepsTotals ==
    /\ state'.total_events >= state.total_events
    /\ (hist'.last = "clear_buffer" /\ hist'.adds = hist.adds)
         => /\ state'.buffer = <<>>
            /\ state'.blocks_count = 0 /\ state'.transactions_count = 0
            /\ state'.inputs_count = 0 /\ state'.outputs_count = 0
            /\ state'.total_events = state.total_events
            /\ state'.last_block_number = state.last_block_number
            /\ state'.last_slot = state.last_slot

\* C34: total_events is the number of add_event calls ever made and never
\* decreases; clear_buffer empties the buffer and resets the four per-type
\* counters and leaves total_events, last_block_number and last_slot; each
\* per-type counter is the number of events of its type added since the
\* last clear.
C34_CountersFollowAddAndClear == []CountersMatch /\ [][ClearKeepsTotals]_vars
C34_Witness ==
    /\ hist.last = "clear_buffer"
    /\ state.total_events > 1
    /\ state.last_block_number > 0 /\ state.last_slot > 0
    /\ state.blocks_count = 0 /\ state.buffer = <<>>

\* C35: whenever the AppState lock is free, blocks_count < MAX_BLOCK_COUNT
\* and transactions_count < MAX_TX_COUNT: process_event clears in the
\* critical section in which a counter reaches its threshold, so no client
\* (which reads the state under the lock) and no stats message sees a
\* counter at or above its threshold.
C35_CountersBelowThresholds ==
    /\ state_lock = "free"
         => /\ state.blocks_count < MAX_BLOCK_COUNT
            /\ state.transactions_count < MAX_TX_COUNT
    /\ hist.stats.blocks_count < MAX_BLOCK_COUNT
    /\ hist.stats.transactions_count < MAX_TX_COUNT
C35_Witness ==
    /\ state_lock = "free"
    /\ stream = "Transaction"
    /\ state.total_events = MAX_TX_COUNT
    /\ state.transactions_count = 0
    /\ hist.stats.total_events = MAX_TX_COUNT
    /\ hist.stats.transactions_count = 0

\* ------------------------------------------------------------------------
\* The broadcasts
\* ------------------------------------------------------------------------
\* the process_event calls that have returned
Completed == IF proc.pc = "recv" THEN proc.read ELSE proc.read - 1
\* where in the send calls the event i and its stats message are
EventSends(i) ==
    {k \in 1..Len(hist.sends) : hist.sends[k].type = "event" /\ hist.sends[k].id = i}
StatsSends(i) ==
    {k \in 1..Len(hist.sends) : hist.sends[k].type = "stats" /\ hist.sends[k].id = i}
\* the i-th event is a Block or a Transaction, or total_events, which is i
\* after the update, is a multiple of 5
StatsDue(i) ==
    KindAt(stream, i) \in {"Block", "Transaction"} \/ i % STATS_PERIOD = 0

\* C36: for every processed event process_event broadcasts the event
\* exactly once; when a receiver is subscribed at the stats decision it
\* broadcasts a stats message for it if and only if the event is a Block or
\* a Transaction or total_events after the update is a multiple of 5; the
\* stats message goes on the channel before its event; and the events are
\* broadcast in the order they were processed.
C36_StatsThenEventInOrder ==
    /\ \A i \in 1..Completed :
          /\ Cardinality(EventSends(i)) = 1
          /\ Cardinality(StatsSends(i)) <= 1
          /\ hist.seen[i] > 0 => (StatsSends(i) # {} <=> StatsDue(i))
    /\ \A i \in 1..proc.read :
          \A k \in StatsSends(i), e \in EventSends(i) : k < e
    /\ \A k, l \in 1..Len(hist.sends) :
          (k < l /\ hist.sends[k].type = "event" /\ hist.sends[l].type = "event")
             => hist.sends[k].id < hist.sends[l].id
C36_Witness ==
    /\ stream = "mixed"
    /\ Completed >= STATS_PERIOD
    /\ hist.seen[3] > 0 /\ StatsSends(3) = {}
    /\ hist.seen[STATS_PERIOD] > 0 /\ StatsSends(STATS_PERIOD) # {}
    /\ \A k \in StatsSends(STATS_PERIOD), e \in EventSends(STATS_PERIOD) : e = k + 1

\* a is the beginning of b
IsPrefix(a, b) == Len(a) <= Len(b) /\ a = SubSeq(b, 1, Len(a))
\* the message of a send call
MessageOf(call_) == [type |-> call_.type, id |-> call_.id]
\* what the client c is owed: the stats of its snapshot, the buffered
\* events of its snapshot in buffer order, then every message sent since it
\* subscribed, in the order of the sends
Owed(c) ==
    LET cl == clients[c]
        live == Len(hist.sends) - cl.subscribed_at
    IN <<StatsMessage(cl.snapshot_total)>>
       \o [k \in 1..Len(cl.snapshot) |-> EventMessage(cl.snapshot[k])]
       \o [k \in 1..live |-> MessageOf(hist.sends[cl.subscribed_at + k])]
\* the client has its receiver and its snapshot
Synced(c) == clients[c].rx /\ clients[c].pc \in {"stats", "events", "live"}

\* C37: a client receives one stats message, then the buffered events in
\* buffer order, then the live broadcasts, none of those sent after its
\* subscription left out; and as it subscribes before it takes the
\* snapshot, every event broadcast before the subscription was already
\* counted in the snapshot (an event may come twice, in the snapshot and
\* live).
C37_SnapshotThenLiveWithoutGap ==
    \A c \in Clients :
        /\ IsPrefix(clients[c].sent, Owed(c))
        /\ Synced(c)
             => \A k \in 1..clients[c].subscribed_at :
                    hist.sends[k].type = "event"
                        => hist.sends[k].id <= clients[c].snapshot_total
C37_Witness ==
    \E c \in Clients :
        /\ clients[c].pc = "live" /\ clients[c].conn = "open"
        /\ clients[c].subscribed_at > 0
        /\ clients[c].snapshot # <<>>
        /\ \E p, q \in 1..Len(clients[c].sent) :
              /\ p < q
              /\ clients[c].sent[p] = clients[c].sent[q]
              /\ clients[c].sent[p].type = "event"
        /\ clients[c].cursor = Len(ws_tx)
        /\ Len(clients[c].sent) > Len(clients[c].snapshot) + 2

\* the i-th event is in the buffer's count and was sent
Handled(i) == hist.adds >= i /\ EventSends(i) # {}

\* C38: under fair scheduling every event read from the source is
\* eventually added to the buffer and broadcast, whatever the WebSocket
\* clients do, even one that stops reading while its snapshot is sent.
C38_EveryEventIsProcessed ==
    \A i \in 1..MaxWsEvents : (proc.read >= i) ~> Handled(i)
C38_Witness ==
    \E c \in Clients :
        /\ clients[c].conn = "stalled"
        /\ state_lock = c
        /\ clients[c].unread = SocketBuffer
        /\ clients[c].snap < Len(state.buffer)
        /\ proc.pc = "lock"
====
